---- MODULE Spec2Model ----
(***************************************************************************)
(* alpha-hub: the streaming session (api/ws.py), the turn orchestrator     *)
(* (core/orchestrator.py) and the message log (storage/db.py) as a state   *)
(* machine.  One step is what one coroutine does between two suspension    *)
(* points of the asyncio event loop: a websocket send, the wait for the    *)
(* next fragment, `await current_task`, `asyncio.wait`.                     *)
(***************************************************************************)
EXTENDS Integers, Sequences, FiniteSets, TLC

(* ------------------------------ bounds --------------------------------- *)
\* turns a behaviour starts (tasks created by start_turn)
MaxTurns == 2
\* inbound payloads one session handles that start no turn
MaxOther == 1
\* the same two bounds of the specification of back-to-back turns
MaxTurnsB2B == 3
MaxOtherB2B == 0
\* the same two bounds of the specification with disconnects
MaxTurnsDisc == 2
MaxOtherDisc == 0
\* the same two bounds of the specification of retried turns
MaxTurnsRetry == 2
MaxOtherRetry == 0
\* fragments the generation capability produces in one behaviour, all turns together
MaxFrags == 2
\* HTTP requests that post a message, each on a thread of its own
MaxCallers == 3
\* the same two bounds of the specification of one turn and the listing of its log
MaxTurnsList == 1
MaxOtherList == 0
\* list requests answered in that specification
MaxPagesTurn == 1
\* the two bounds of the specification with subscribers on the bus, and the
\* subscribers registered in one behaviour
MaxTurnsBus == 1
MaxOtherBus == 1
MaxSubs == 2
\* seconds the wall clock advances in one behaviour
MaxClock == 2
\* list requests answered in one behaviour of the specification of paging with
\* SqliteStore.list_messages, and with the list endpoint
MaxPages == 3
MaxPagesHttp == 2
\* messages posted in one behaviour of the specifications of paging
MaxMsgs == 3
\* the largest limit a list request asks for
\* clip_lines: the length of the texts and the max_lines values
MaxClipLen == 4
MaxClipLines == 2
\* turns whose usage is counted
MaxTurnsUsage == 1
MaxOtherUsage == 1
\* the log under turns, appends and list requests
MaxTurnsLog == 2
MaxOtherLog == 0
MaxPagesLog == 1
\* two sessions: turns and other payloads (per session)
MaxTurnsTwo == 2
MaxOtherTwo == 1
MaxTurnsCtx == 2
MaxOtherCtx == 0
\* the context_limit values an Orchestrator is constructed with
MaxContextLimit == 2
MaxLimit == 2

(* ------------------------------ values --------------------------------- *)
\* Python None / a JSON null / a field that is not there
Absent == "absent"
\* a truthy JSON value that is not a string (a number, a list)
BadVal == "#nonstring"
\* the id new_trace_id() makes for an error frame: equal to no turn's trace id
GenTrace == "generated"
NoTurn == 0
NoId == 0
NoError == ""
\* a content_text field that is missing or not a string
MissingText == <<"#missing">>

SessionIds == {"s1", "s2"}
\* the sessions of the main specification
MainSessions == {"s1"}
\* the conversation_id query parameter of the connection
SessionConv(s) == IF s = "s1" THEN Absent ELSE "c2"

\* trace ids, in the order they are first used
TraceName == <<"t1", "t2", "t3", "t4", "t5", "t6">>
Texts == {<<"h", "i">>}
\* user texts with no word, one word, and words between, before and after whitespace
UsageTexts ==
  {<<>>, <<"h", "e", "l", "l", "o">>, <<"a", " ", "b">>,
   <<" ", "a", "\t", " ", "b", "c", "\n">>}
\* the system_prompt an Orchestrator is constructed with
SystemPrompt == <<"s", "y", "s">>
\* the fragments the generation capability produces, in order
LlmScript == << <<"a">>, <<" ", "b">>, <<"c">>, <<" ">> >>
FragAt(k) == LlmScript[((k - 1) % Len(LlmScript)) + 1]

(* --------------------------- Python helpers ---------------------------- *)
\* `not x` for an Optional[str]: None and "" are falsy
Falsy(x) == x = Absent \/ x = ""
\* `x or y`
PyOr(x, y) == IF Falsy(x) THEN y ELSE x
IsStr(x) == x # Absent /\ x # BadVal
IsSpace(c) == c \in {" ", "\t", "\n"}
\* len(text)
WordCountOfChars(text) == Len(text)
\* len(text.split())
WordCount(text) ==
  Cardinality({i \in 1..Len(text) :
                 ~IsSpace(text[i]) /\ (i = 1 \/ IsSpace(text[i - 1]))})
RECURSIVE Join(_)
\* "".join(parts)
Join(parts) == IF parts = <<>> THEN <<>> ELSE Head(parts) \o Join(Tail(parts))

VARIABLES
  conn,              \* per session: absent | open | draining | closed | crashed
  current_task,      \* per session: the turn whose task it holds, or NoTurn
  current_cancel,    \* per session: the turn whose cancel Event it holds, or NoTurn
  current_trace_id,  \* per session: a trace id, or Absent
  turn_task,         \* per session: the finish_turn task of the main loop
  out,               \* per session: the frames sent on the connection
  nOther,            \* per session: inbound payloads handled that started no turn
  recv_task,         \* per session: receive_text() tasks created and not yet resolved
  turns,             \* the run_turn tasks ever created, in creation order
  store,             \* the rows of table messages, in insertion (rowid) order
  nextId,            \* the next id new_id() hands out
  events,            \* the envelopes published on the bus, in order
  clock,             \* utc_now_iso(), in whole seconds
  budget,            \* the bounds of the behaviour, never changed
  lock,              \* SqliteStore._lock: the request that holds it, or NoCaller
  callers,           \* per HTTP request: its post_message call, see NoCall
  pages,             \* the list requests answered so far, in order, with their results
  subs,              \* InProcessEventBus._subs: per topic, the subscribers in order
  published,         \* the publish calls made on the bus, in order, with their outcome
  clip               \* a call of clip_lines: its arguments, and its result once made

sessVars == <<conn, current_task, current_cancel, current_trace_id, turn_task, out, nOther,
             recv_task>>
coreVars == <<turns, store, nextId, events>>
vars == <<conn, current_task, current_cancel, current_trace_id, turn_task, out,
          nOther, recv_task, turns, store, nextId, events, clock, budget, pages, subs,
          published, lock, callers, clip>>

(* ------------------------------ frames --------------------------------- *)
StatusFrame(trace, stage) ==
  [type |-> "assistant_status", trace_id |-> trace, stage |-> stage, delta |-> <<>>,
   reason |-> "", message_id |-> NoId, usage |-> <<0, 0>>,
   capability_warnings |-> <<>>, error |-> NoError, turn |-> NoTurn]
DeltaFrame(trace, delta) ==
  [type |-> "assistant_delta", trace_id |-> trace, stage |-> "", delta |-> delta,
   reason |-> "", message_id |-> NoId, usage |-> <<0, 0>>,
   capability_warnings |-> <<>>, error |-> NoError, turn |-> NoTurn]
\* `turn` is bookkeeping, not on the wire: the turn whose result the frame reports
DoneFrame(trace, reason, mid, usage, warnings, code, t) ==
  [type |-> "assistant_done", trace_id |-> trace, stage |-> "", delta |-> <<>>,
   reason |-> reason, message_id |-> mid, usage |-> usage,
   capability_warnings |-> warnings, error |-> code, turn |-> t]
ErrorDone(trace, code) == DoneFrame(trace, "error", NoId, <<0, 0>>, <<>>, code, NoTurn)
\* WsAssistantDone declares trace_id: str; any other value fails validation
DoneValid(trace) == IsStr(trace)

OutAppend(s, fr) == [out EXCEPT ![s] = Append(@, fr)]
\* a send of run_turn: on the wire only while the connection is open
Emit(s, fr) == IF conn[s] = "open" THEN OutAppend(s, fr) ELSE out
\* whether a send of run_turn may return normally / may raise
SendOutcomes(s) == IF conn[s] = "open" THEN {TRUE} ELSE BOOLEAN

(* ---------------------------- message log ------------------------------ *)
\* `writer` is bookkeeping: the turn that inserted the row (NoTurn: the HTTP surface)
Row(id, conv, role, text, crid, now, w) ==
  [message_id |-> id, conversation_id |-> conv, role |-> role, content_text |-> text,
   created_at_utc |-> now, client_request_id |-> crid, writer |-> w]
\* the rows the SELECT of create_message finds
Existing(st, conv, crid) ==
  {i \in DOMAIN st : st[i].conversation_id = conv /\ st[i].client_request_id = crid}
\* idx_messages_idempotent and the primary key
InsertAllowed(st, id, conv, crid) ==
  /\ \A i \in DOMAIN st : st[i].message_id # id
  /\ crid = Absent \/ Existing(st, conv, crid) = {}
\* create_message writing the new values over the row its SELECT finds
CreateMessageOverwriting(st, id, conv, role, text, crid, now, w) ==
  IF ~Falsy(crid) /\ Existing(st, conv, crid) # {}
  THEN LET i == CHOOSE i \in Existing(st, conv, crid) : TRUE
           row == Row(st[i].message_id, conv, role, text, crid, now, w)
       IN [ok |-> TRUE, store |-> [st EXCEPT ![i] = row], row |-> row]
  ELSE IF InsertAllowed(st, id, conv, crid)
       THEN [ok |-> TRUE, store |-> Append(st, Row(id, conv, role, text, crid, now, w)),
             row |-> Row(id, conv, role, text, crid, now, w)]
       ELSE [ok |-> FALSE, store |-> st, row |-> Row(id, conv, role, text, crid, now, w)]
\* ok = FALSE: the INSERT raised sqlite3.IntegrityError
CreateMessage(st, id, conv, role, text, crid, now, w) ==
  IF ~Falsy(crid) /\ Existing(st, conv, crid) # {}
  THEN [ok |-> TRUE, store |-> st,
        row |-> st[CHOOSE i \in Existing(st, conv, crid) : TRUE]]
  ELSE IF InsertAllowed(st, id, conv, crid)
       THEN [ok |-> TRUE, store |-> Append(st, Row(id, conv, role, text, crid, now, w)),
             row |-> Row(id, conv, role, text, crid, now, w)]
       ELSE [ok |-> FALSE, store |-> st, row |-> Row(id, conv, role, text, crid, now, w)]

(* --------------------------- list_messages ----------------------------- *)
\* limit=None and before_created_at_utc=None of SqliteStore.list_messages
NoLimit == 0
NoBefore == -1
\* the rows of the WHERE clause with `created_at_utc <= ?` in place of `<`
EligibleUpTo(st, conv, before) ==
  {i \in DOMAIN st : /\ st[i].conversation_id = conv
                     /\ before = NoBefore \/ st[i].created_at_utc <= before}
\* WHERE conversation_id=?, and AND created_at_utc < ? when a timestamp is given
Eligible(st, conv, before) ==
  {i \in DOMAIN st : /\ st[i].conversation_id = conv
                     /\ before = NoBefore \/ st[i].created_at_utc < before}
\* ORDER BY created_at_utc ASC / DESC of the rows E: SQL leaves the order of rows with
\* equal created_at_utc open, every order of them is a possible result
Orderings(st, E, desc) ==
  {o \in [1..Cardinality(E) -> E] :
     /\ \A a, b \in 1..Cardinality(E) : a # b => o[a] # o[b]
     /\ \A a, b \in 1..Cardinality(E) :
          a < b => IF desc THEN st[o[a]].created_at_utc >= st[o[b]].created_at_utc
                           ELSE st[o[a]].created_at_utc <= st[o[b]].created_at_utc}
\* the n last rows of the order in place of the n first
LimitLast(o, n) == SubSeq(o, IF n < Len(o) THEN Len(o) - n + 1 ELSE 1, Len(o))
\* LIMIT ?
Limit(o, n) == SubSeq(o, 1, IF n < Len(o) THEN n ELSE Len(o))
\* msgs.reverse()
Reverse(q) == [k \in 1..Len(q) |-> q[Len(q) + 1 - k]]
\* SqliteStore.list_messages: the row lists it may return
ListMessages(st, conv, limit, before) ==
  LET E == Eligible(st, conv, before)
  IN IF limit = NoLimit
     THEN {[k \in DOMAIN o |-> st[o[k]]] : o \in Orderings(st, E, FALSE)}
     ELSE {Reverse([k \in DOMAIN Limit(o, limit) |-> st[Limit(o, limit)[k]]]) :
             o \in Orderings(st, E, TRUE)}
\* SqliteStore.get_message
GetMessage(st, id) == {i \in DOMAIN st : st[i].message_id = id}
Envelope(type, trace, conv, mid, role) ==
  [type |-> type, trace_id |-> trace, conversation_id |-> conv, message_id |-> mid,
   role |-> role]

\* the envelope of run_turn with the event type of start_turn
StoredEnvelopeAsReceived(T, mid, role) ==
  Envelope("message.received", T.trace_id, T.conversation_id, mid, role)
\* Orchestrator._publish(event_type="message.stored", ...) of the turn T
StoredEnvelope(T, mid, role) ==
  Envelope("message.stored", T.trace_id, T.conversation_id, mid, role)

(* -------------------------------- bus ---------------------------------- *)
\* the topics Orchestrator._publish and publish_received publish on
Topics == {"alpha.message.received", "alpha.message.stored"}
\* the subscriber functions: two that return, one that raises
Fns == {"f", "g", "boom"}
Raises(fn) == fn = "boom"
\* InProcessEventBus.publish iterates the list of the topic and calls each function:
\* an exception of a function leaves the loop and publish
PublishRaises(topic) == \E k \in DOMAIN subs[topic] : Raises(subs[topic][k])
\* the calls publish makes, in order: each names the list and the place in the list
\* of the function called
InvokedBy(topic) ==
  LET L == subs[topic]
      n == IF PublishRaises(topic)
           THEN CHOOSE k \in DOMAIN L : Raises(L[k]) /\ \A j \in 1..(k - 1) : ~Raises(L[j])
           ELSE Len(L)
  IN [k \in 1..n |-> [topic |-> topic, pos |-> k, fn |-> L[k]]]
\* one publish call; `registered` is the list of the topic when the call was made
Delivery(topic, env) ==
  [topic |-> topic, envelope |-> env, registered |-> subs[topic],
   invoked |-> InvokedBy(topic),
   outcome |-> IF PublishRaises(topic) THEN "raised" ELSE "returned"]
Publish(topic, env) == Append(published, Delivery(topic, env))

(* ------------------------------- tasks --------------------------------- *)
NoTurnTask == [st |-> "none", task |-> NoTurn]
NewTurn(s, trace, conv, text, crid, umid) ==
  [sess |-> s, trace_id |-> trace, conversation_id |-> conv, content_text |-> text,
   client_request_id |-> crid, user_message_id |-> umid, pc |-> "created",
   cancel |-> FALSE, parts |-> <<>>, nfrag |-> 0, user_row_id |-> NoId,
   reason |-> "", assistant_id |-> NoId, usage |-> <<0, 0>>, warnings |-> <<>>,
   error |-> NoError, ctx |-> <<>>, cb_raised |-> ""]
\* asyncio.Task.done()
TaskDone(t) == turns[t].pc \in {"returned", "raised", "aborted"}
\* run_turn has been called and has not returned
InFlight(t) == ~TaskDone(t)
RECURSIVE FragsOf(_)
\* fragments produced so far by the generations of the turns ts
FragsOf(ts) == IF ts = <<>> THEN 0 ELSE Head(ts).nfrag + FragsOf(Tail(ts))
LlmDown == << [name |-> "llm", status |-> "down", notify |-> "explicit"] >>

\* the HTTP requests
Callers == 1..MaxCallers
NoCaller == 0
\* a request that has not called post_message yet
NoCall ==
  [pc |-> "idle", conversation_id |-> "", content_text |-> <<>>,
   client_request_id |-> Absent, message_id |-> NoId, created_at_utc |-> 0,
   ret |-> NoId, ret_text |-> <<>>]

\* a call of clip_lines(text, max_lines) that has not run
ClipCall(text, max_lines) ==
  [text |-> text, max_lines |-> max_lines, done |-> FALSE, result |-> <<>>]
\* no clip_lines call: the hub does not use the script
NoClip == [ClipCall(<<>>, 0) EXCEPT !.done = TRUE]

InitWith(b) ==
  /\ clip = NoClip
  /\ budget = b
  /\ lock = NoCaller
  /\ callers = [c \in Callers |-> NoCall]
  /\ conn = [s \in SessionIds |-> "absent"]
  /\ current_task = [s \in SessionIds |-> NoTurn]
  /\ current_cancel = [s \in SessionIds |-> NoTurn]
  /\ current_trace_id = [s \in SessionIds |-> Absent]
  /\ turn_task = [s \in SessionIds |-> NoTurnTask]
  /\ out = [s \in SessionIds |-> <<>>]
  /\ nOther = [s \in SessionIds |-> 0]
  /\ recv_task = [s \in SessionIds |-> 0]
  /\ turns = <<>>
  /\ store = <<>>
  /\ nextId = 1
  /\ events = <<>>
  /\ clock = 0
  /\ pages = <<>>
  /\ subs = [tp \in Topics |-> <<>>]
  /\ published = <<>>

\* budget.context_limit of a specification that leaves the context of the turns out
NoContextLimit == -1
\* the bounds of a behaviour without list requests
Bounds(nturns, nother, crids) ==
  [turns |-> nturns, other |-> nother, crids |-> crids, pages |-> 0, msgs |-> 0,
   texts |-> Texts, convs |-> {Absent, "c1"}, context_limit |-> NoContextLimit]
Init == InitWith(Bounds(MaxTurns, MaxOther, {Absent, "k1"}))
\* back-to-back turns: more turns, no other payload
InitB2B == InitWith(Bounds(MaxTurnsB2B, MaxOtherB2B, {Absent, "k1"}))
\* a client that retries: the client_request_id values it sends are never null
InitRetry == InitWith(Bounds(MaxTurnsRetry, MaxOtherRetry, {"", "k1", "k2"}))
InitDisc == InitWith(Bounds(MaxTurnsDisc, MaxOtherDisc, {Absent, "k1"}))

\* the top of the main loop creating a read whatever recv_task holds
ArmReadAlways(n) == n + 1

\* the top of the main loop: `if recv_task is None: recv_task = create_task(...)`
ArmRead(n) == IF n = 0 THEN 1 ELSE n
\* `raw = await recv_task; recv_task = None`: the read has resolved and is dropped
TakeRead(n) == n - 1
\* one iteration of the main loop that the read woke: the read is taken, handle_raw
\* runs, the next iteration creates the next read
ReadTaken(s) == [recv_task EXCEPT ![s] = ArmRead(TakeRead(@))]

\* ws_chat up to the first wait of the main loop: the connection is accepted
Connect(s) ==
  /\ conn[s] = "absent"
  /\ conn' = [conn EXCEPT ![s] = "open"]
  /\ recv_task' = [recv_task EXCEPT ![s] = ArmRead(@)]
  /\ UNCHANGED <<current_task, current_cancel, current_trace_id, turn_task, out, nOther>>
  /\ UNCHANGED <<coreVars, clock, budget, clip, pages, subs, published, lock, callers>>


(* ------------------------- inbound payloads ---------------------------- *)
\* raw_text after json.loads: shape garbage = json.loads raised, nonobject = a JSON
\* value that is no dict, object = a dict with these fields
Obj(type, trace, conv, text, crid) ==
  [shape |-> "object", type |-> type, trace_id |-> trace, conversation_id |-> conv,
   content_text |-> text, client_request_id |-> crid]
Garbage == [Obj("", Absent, Absent, MissingText, Absent) EXCEPT !.shape = "garbage"]
NonObject == [Obj("", Absent, Absent, MissingText, Absent) EXCEPT !.shape = "nonobject"]
\* WsUserMessage.model_validate(obj) succeeds
ValidUserMessage(f) ==
  /\ f.shape = "object" /\ f.type = "user_message"
  /\ f.content_text # MissingText
  /\ f.trace_id # BadVal /\ f.conversation_id # BadVal /\ f.client_request_id # BadVal
\* WsCancel.model_validate(obj) succeeds
ValidCancel(f) == f.shape = "object" /\ f.type = "cancel" /\ IsStr(f.trace_id)
\* a trace id no frame and no turn has used so far: what new_trace_id() returns, and
\* what a client picks for a new request
FreshTrace == TraceName[Len(turns) + nOther["s1"] + nOther["s2"] + 1]
\* a client gives each turn it asks for a trace id of its own, or none
StartFrames ==
  {Obj("user_message", tr, cv, tx, cr) :
     tr \in {Absent, FreshTrace}, cv \in budget.convs,
     tx \in budget.texts, cr \in budget.crids}
\* the trace ids a client knows: those of the turns so far, and one of no turn
KnownTraces == {turns[i].trace_id : i \in DOMAIN turns} \cup {FreshTrace}
CancelFrames == {Obj("cancel", tr, Absent, MissingText, Absent) : tr \in KnownTraces}
TraceVals == {Absent, BadVal} \cup KnownTraces
MalformedFrames ==
  {Garbage, NonObject}
    \cup {Obj("ping", tr, Absent, MissingText, Absent) : tr \in TraceVals}
    \cup {Obj("cancel", tr, Absent, MissingText, Absent) : tr \in {Absent, BadVal}}
    \cup {Obj("user_message", tr, "c1", MissingText, Absent) : tr \in TraceVals}
    \cup {Obj("user_message", BadVal, "c1", tx, Absent) : tx \in Texts}

(* ---------------------------- main loop -------------------------------- *)
\* The rest of one iteration of the main loop after handle_raw, and the top of the
\* next: a finished turn_task is dropped, and finish_turn is started for current_task
\* (`ct`) when there is no turn_task; finish_turn reads current_task when it first
\* runs, before anything else can assign it.
AfterIter(s, ct) ==
  LET tt == IF turn_task[s].st = "finished" THEN NoTurnTask ELSE turn_task[s]
  IN IF ct # NoTurn /\ tt.st = "none" THEN [st |-> "awaiting", task |-> ct] ELSE tt

\* start_turn refusing the request while any connection holds a task that is not done
TurnRunningAnySession(s) ==
  \E s2 \in SessionIds : current_task[s2] # NoTurn /\ ~TaskDone(current_task[s2])
\* start_turn: the request is refused while the task held is not done
TurnRunning(s) == current_task[s] # NoTurn /\ ~TaskDone(current_task[s])

\* handle_raw of a user_message that validates, start_turn included
RecvUserMessage(s, f) ==
  /\ conn[s] = "open" /\ recv_task[s] > 0
  /\ ValidUserMessage(f)
  /\ recv_task' = ReadTaken(s)
  /\ LET cid == PyOr(f.conversation_id, SessionConv(s))
         t == Len(turns) + 1
         trace == PyOr(f.trace_id, FreshTrace)
     IN IF TurnRunning(s)
        THEN /\ nOther[s] < budget.other
             /\ out' = OutAppend(s, ErrorDone(PyOr(current_trace_id[s], GenTrace), "CONFLICT"))
             /\ nOther' = [nOther EXCEPT ![s] = @ + 1]
             /\ turn_task' = [turn_task EXCEPT ![s] = AfterIter(s, current_task[s])]
             /\ UNCHANGED <<conn, current_task, current_cancel, current_trace_id>>
             /\ UNCHANGED <<coreVars, clock, budget, clip, pages, subs, published, lock, callers>>
        ELSE IF Falsy(cid)
        THEN /\ nOther[s] < budget.other
             /\ out' = OutAppend(s, ErrorDone(PyOr(f.trace_id, GenTrace), "INVALID_ARGUMENT"))
             /\ nOther' = [nOther EXCEPT ![s] = @ + 1]
             /\ turn_task' = [turn_task EXCEPT ![s] = AfterIter(s, current_task[s])]
             /\ UNCHANGED <<conn, current_task, current_cancel, current_trace_id>>
             /\ UNCHANGED <<coreVars, clock, budget, clip, pages, subs, published, lock, callers>>
        ELSE /\ current_trace_id' = [current_trace_id EXCEPT ![s] = trace]
             /\ nextId' = nextId + 1
             /\ events' = Append(events, Envelope("message.received", trace, cid, nextId, ""))
             /\ published' = Publish("alpha.message.received",
                                     Envelope("message.received", trace, cid, nextId, ""))
             /\ IF PublishRaises("alpha.message.received")
                THEN \* publish_received raises inside start_turn: handle_raw catches it
                     /\ nOther[s] < budget.other
                     /\ nOther' = [nOther EXCEPT ![s] = @ + 1]
                     /\ out' = OutAppend(s, ErrorDone(PyOr(f.trace_id, GenTrace),
                                                      "INVALID_ARGUMENT"))
                     /\ turn_task' = [turn_task EXCEPT ![s] = AfterIter(s, current_task[s])]
                     /\ UNCHANGED <<current_task, current_cancel, turns>>
                ELSE /\ Len(turns) < budget.turns
                     /\ current_cancel' = [current_cancel EXCEPT ![s] = t]
                     /\ turns' = Append(turns, NewTurn(s, trace, cid, f.content_text,
                                                       f.client_request_id, nextId))
                     /\ current_task' = [current_task EXCEPT ![s] = t]
                     /\ turn_task' = [turn_task EXCEPT ![s] = AfterIter(s, t)]
                     /\ UNCHANGED <<out, nOther>>
             /\ UNCHANGED <<conn, store, clock, budget, clip, pages, subs, lock, callers>>

\* handle_cancel without the comparison of trace ids
CancelAcceptedAnyTrace(s, f) ==
  current_task[s] # NoTurn /\ ~TaskDone(current_task[s]) /\ current_cancel[s] # NoTurn

\* handle_cancel: whether the frame is accepted
CancelAccepted(s, f) ==
  /\ current_task[s] # NoTurn /\ ~TaskDone(current_task[s]) /\ current_cancel[s] # NoTurn
  /\ ~(~Falsy(current_trace_id[s]) /\ f.trace_id # current_trace_id[s])

\* handle_raw of a cancel that validates, handle_cancel included
RecvCancel(s, f) ==
  /\ conn[s] = "open" /\ recv_task[s] > 0
  /\ ValidCancel(f)
  /\ recv_task' = ReadTaken(s)
  /\ nOther[s] < budget.other
  /\ nOther' = [nOther EXCEPT ![s] = @ + 1]
  /\ turn_task' = [turn_task EXCEPT ![s] = AfterIter(s, current_task[s])]
  /\ IF CancelAccepted(s, f)
     THEN /\ turns' = [turns EXCEPT ![current_cancel[s]].cancel = TRUE]
          /\ out' = out
     ELSE /\ out' = OutAppend(s, ErrorDone(f.trace_id, "NOT_FOUND"))
          /\ turns' = turns
  /\ UNCHANGED <<conn, current_task, current_cancel, current_trace_id>>
  /\ UNCHANGED <<store, nextId, events, clock, budget, clip, pages, subs, published, lock, callers>>

\* the trace id handle_raw addresses an INVALID_ARGUMENT frame with
BestTrace(f) == IF f.shape = "object" THEN PyOr(f.trace_id, GenTrace) ELSE GenTrace

\* An exception leaves ws_chat: its finally block cancels turn_task, and the
\* cancellation of a finish_turn that awaits current_task cancels that task too.
AbortedBy(s) ==
  IF turn_task[s].st = "awaiting" /\ ~TaskDone(turn_task[s].task)
  THEN [turns EXCEPT ![turn_task[s].task].pc = "aborted"]
  ELSE turns

\* handle_raw of a payload that is no valid frame.  send_done builds a
\* WsAssistantDone: when that raises inside `except Exception`, nothing catches it.
RecvMalformed(s, f) ==
  /\ conn[s] = "open" /\ recv_task[s] > 0
  /\ ~ValidUserMessage(f) /\ ~ValidCancel(f)
  /\ nOther[s] < budget.other
  /\ nOther' = [nOther EXCEPT ![s] = @ + 1]
  /\ IF DoneValid(BestTrace(f))
     THEN /\ out' = OutAppend(s, ErrorDone(BestTrace(f), "INVALID_ARGUMENT"))
          /\ turn_task' = [turn_task EXCEPT ![s] = AfterIter(s, current_task[s])]
          /\ recv_task' = ReadTaken(s)
          /\ UNCHANGED <<conn, turns>>
     ELSE /\ conn' = [conn EXCEPT ![s] = "crashed"]
          /\ recv_task' = [recv_task EXCEPT ![s] = TakeRead(@)]
          /\ turns' = AbortedBy(s)
          /\ turn_task' = [turn_task EXCEPT ![s] = NoTurnTask]
          /\ out' = out
  /\ UNCHANGED <<current_task, current_cancel, current_trace_id>>
  /\ UNCHANGED <<store, nextId, events, clock, budget, clip, pages, subs, published, lock, callers>>

\* the main loop wakes because turn_task alone is done
ObserveTurnTask(s) ==
  /\ conn[s] = "open"
  /\ turn_task[s].st = "finished"
  /\ turn_task' = [turn_task EXCEPT ![s] = AfterIter(s, current_task[s])]
  /\ recv_task' = [recv_task EXCEPT ![s] = ArmRead(@)]
  /\ UNCHANGED <<conn, current_task, current_cancel, current_trace_id, out, nOther>>
  /\ UNCHANGED <<coreVars, clock, budget, clip, pages, subs, published, lock, callers>>

\* receive_text raises WebSocketDisconnect: the except block sets the cancel Event
\* and awaits current_task
Disconnect(s) ==
  /\ conn[s] = "open" /\ recv_task[s] > 0
  /\ recv_task' = [recv_task EXCEPT ![s] = TakeRead(@)]
  /\ turns' = IF current_cancel[s] # NoTurn
              THEN [turns EXCEPT ![current_cancel[s]].cancel = TRUE] ELSE turns
  /\ conn' = [conn EXCEPT ![s] = IF current_task[s] # NoTurn /\ ~TaskDone(current_task[s])
                                 THEN "draining" ELSE "closed"]
  /\ UNCHANGED <<current_task, current_cancel, current_trace_id, turn_task, out, nOther>>
  /\ UNCHANGED <<store, nextId, events, clock, budget, clip, pages, subs, published, lock, callers>>

\* `await current_task` of the except block returns (or raises, ignored)
Drained(s) ==
  /\ conn[s] = "draining"
  /\ TaskDone(current_task[s])
  /\ conn' = [conn EXCEPT ![s] = "closed"]
  /\ UNCHANGED <<current_task, current_cancel, current_trace_id, turn_task, out, nOther>>
  /\ UNCHANGED recv_task
  /\ UNCHANGED <<coreVars, clock, budget, clip, pages, subs, published, lock, callers>>

(* ---------------------------- finish_turn ------------------------------ *)
\* finish_turn reporting the id of a message of the turn whatever the result
DoneMessageIdOfAnyRow(r) == IF r.assistant_id # NoId THEN r.assistant_id ELSE r.user_row_id

\* message_id of the done frame: result.assistant_message.message_id, or None
DoneMessageId(r) == IF r.assistant_id # NoId THEN r.assistant_id ELSE NoId

\* finish_turn going on to send_done without awaiting the task
ResultReadyAtOnce(t) == TRUE
\* `result = await current_task` of finish_turn returns: run_turn has returned
ResultReady(t) == turns[t].pc = "returned"

\* `result = await current_task` returns and send_done starts.  finish_turn awaits the
\* task that current_task held when it first ran.
FinishSend(s) ==
  /\ conn[s] = "open"
  /\ turn_task[s].st = "awaiting"
  /\ ResultReady(turn_task[s].task)
  /\ LET r == turns[turn_task[s].task]
     IN out' = OutAppend(s, DoneFrame(r.trace_id, r.reason, DoneMessageId(r), r.usage,
                                      r.warnings, r.error, turn_task[s].task))
  /\ turn_task' = [turn_task EXCEPT ![s].st = "sending"]
  /\ UNCHANGED <<conn, current_task, current_cancel, current_trace_id, nOther>>
  /\ UNCHANGED recv_task
  /\ UNCHANGED <<coreVars, clock, budget, clip, pages, subs, published, lock, callers>>

\* send_done has returned: the three connection-local variables are reset
FinishClear(s) ==
  /\ conn[s] = "open"
  /\ turn_task[s].st = "sending"
  /\ current_task' = [current_task EXCEPT ![s] = NoTurn]
  /\ current_cancel' = [current_cancel EXCEPT ![s] = NoTurn]
  /\ current_trace_id' = [current_trace_id EXCEPT ![s] = Absent]
  /\ turn_task' = [turn_task EXCEPT ![s].st = "finished"]
  /\ UNCHANGED <<conn, out, nOther>>
  /\ UNCHANGED recv_task
  /\ UNCHANGED <<coreVars, clock, budget, clip, pages, subs, published, lock, callers>>

\* `result = await current_task` raises what run_turn raised: finish_turn ends with
\* that exception, `await turn_task` of the main loop raises it, and it leaves
\* ws_chat, whose finally block cancels the read
FinishRaised(s) ==
  /\ conn[s] = "open"
  /\ turn_task[s].st = "awaiting"
  /\ turns[turn_task[s].task].pc = "raised"
  /\ conn' = [conn EXCEPT ![s] = "crashed"]
  /\ turn_task' = [turn_task EXCEPT ![s] = NoTurnTask]
  /\ recv_task' = [recv_task EXCEPT ![s] = 0]
  /\ UNCHANGED <<current_task, current_cancel, current_trace_id, out, nOther>>
  /\ UNCHANGED <<coreVars, clock, budget, clip, pages, subs, published, lock, callers>>

(* ------------------------------ run_turn ------------------------------- *)
\* run_turn returns a TurnResult
\* self.context_limit = max(1, int(context_limit))
ContextLimit(cfg) == IF cfg < 1 THEN 1 ELSE cfg
\* one ChatMessage of the context; message_id is bookkeeping: the row it was made of
ChatMessage(role, text, mid) == [role |-> role, content_text |-> text, message_id |-> mid]
RECURSIVE HistoryContext(_, _)
\* the loop over history: the row of the user message is skipped, rows of role user
\* and assistant are taken
HistoryContext(history, user_row_id) ==
  IF history = <<>> THEN <<>>
  ELSE (IF Head(history).message_id # user_row_id
           /\ Head(history).role \in {"user", "assistant"}
        THEN <<ChatMessage(Head(history).role, Head(history).content_text,
                           Head(history).message_id)>>
        ELSE <<>>) \o HistoryContext(Tail(history), user_row_id)
\* ctx of run_turn: the system prompt, the history, the user text of this call
Context(history, user_row_id, text) ==
  <<ChatMessage("system", SystemPrompt, NoId)>>
    \o HistoryContext(history, user_row_id)
    \o <<ChatMessage("user", text, NoId)>>
\* the contexts run_turn may build on the log st
Contexts(st, T, user_row_id) ==
  IF budget.context_limit = NoContextLimit THEN {<<>>}
  ELSE {Context(h, user_row_id, T.content_text) :
          h \in ListMessages(st, T.conversation_id, ContextLimit(budget.context_limit),
                             NoBefore)}

Returned(t, reason, amid, usage, warnings, code) ==
  [turns EXCEPT ![t].pc = "returned", ![t].reason = reason, ![t].assistant_id = amid,
                ![t].usage = usage, ![t].warnings = warnings, ![t].error = code]
Cancelled(t) == Returned(t, "cancelled", NoId, <<0, 0>>, <<>>, NoError)
\* the except branch of run_turn without the capability warning
UnavailableNoWarning(t) == Returned(t, "error", NoId, <<0, 0>>, <<>>, "UNAVAILABLE")
Unavailable(t) == Returned(t, "error", NoId, <<0, 0>>, LlmDown, "UNAVAILABLE")
\* the exception of a callback called in the try block leaving run_turn
CallbackFailedPropagates(t, cb) == [turns EXCEPT ![t].pc = "raised", ![t].cb_raised = cb]
\* on_status("streaming") or on_delta raises in the try block: the except branch.
\* cb_raised is bookkeeping: the callback of the call that raised
CallbackFailed(t, cb) == [Unavailable(t) EXCEPT ![t].cb_raised = cb]

\* whether run_turn persists the generated text: only past the cancellation check
\* that follows the loop
PersistsOutput(t) == ~turns[t].cancel

\* run_turn catching the exception of its first create_message call
UserStoreFailureAsError(t) == Unavailable(t)
\* the first create_message call is in no try block: what it raises leaves run_turn
UserStoreFailure(t) == [turns EXCEPT ![t].pc = "raised"]

\* from the call to the send of status queued: the user message is stored (or found),
\* message.stored is published, the context is built
RunStart(t, sendok) ==
  /\ t \in DOMAIN turns
  /\ turns[t].pc = "created"
  /\ sendok \in SendOutcomes(turns[t].sess)
  /\ LET T == turns[t]
         r == CreateMessage(store, T.user_message_id, T.conversation_id, "user",
                            T.content_text, T.client_request_id, clock, t)
         env == StoredEnvelope(T, r.row.message_id, "user")
     IN IF ~r.ok
        THEN /\ turns' = UserStoreFailure(t)
             /\ UNCHANGED <<store, events, published, out>>
        ELSE /\ store' = r.store
             /\ events' = Append(events, env)
             /\ published' = Publish("alpha.message.stored", env)
             /\ IF PublishRaises("alpha.message.stored")
                THEN /\ out' = out
                     /\ turns' = [turns EXCEPT ![t].user_row_id = r.row.message_id,
                                               ![t].pc = "raised"]
                ELSE /\ out' = Emit(T.sess, StatusFrame(T.trace_id, "queued"))
                     /\ \E ctx \in Contexts(r.store, T, r.row.message_id) :
                          turns' = [turns EXCEPT
                                      ![t].user_row_id = r.row.message_id,
                                      ![t].ctx = ctx,
                                      ![t].cb_raised = IF sendok THEN "" ELSE "queued",
                                      ![t].pc = IF sendok THEN "queued" ELSE "raised"]
  /\ UNCHANGED <<conn, current_task, current_cancel, current_trace_id, turn_task, nOther>>
  /\ UNCHANGED recv_task
  /\ UNCHANGED <<nextId, clock, budget, clip, pages, subs, lock, callers>>

\* run_turn without its first cancellation check
RunQueuedNoCheck(t, sendok) ==
  /\ t \in DOMAIN turns
  /\ turns[t].pc = "queued"
  /\ sendok \in SendOutcomes(turns[t].sess)
  /\ out' = Emit(turns[t].sess, StatusFrame(turns[t].trace_id, "thinking"))
  /\ turns' = [turns EXCEPT ![t].pc = IF sendok THEN "thinking" ELSE "raised",
                            ![t].cb_raised = IF sendok THEN "" ELSE "thinking"]
  /\ UNCHANGED <<conn, current_task, current_cancel, current_trace_id, turn_task, nOther>>
  /\ UNCHANGED recv_task
  /\ UNCHANGED <<store, nextId, events, clock, budget, clip, pages, subs, published, lock, callers>>

\* the first cancellation check, then the send of status thinking
RunQueued(t, sendok) ==
  /\ t \in DOMAIN turns
  /\ turns[t].pc = "queued"
  /\ sendok \in SendOutcomes(turns[t].sess)
  /\ IF turns[t].cancel
     THEN /\ turns' = Cancelled(t)
          /\ out' = out
     ELSE /\ out' = Emit(turns[t].sess, StatusFrame(turns[t].trace_id, "thinking"))
          /\ turns' = [turns EXCEPT ![t].pc = IF sendok THEN "thinking" ELSE "raised",
                                    ![t].cb_raised = IF sendok THEN "" ELSE "thinking"]
  /\ UNCHANGED <<conn, current_task, current_cancel, current_trace_id, turn_task, nOther>>
  /\ UNCHANGED recv_task
  /\ UNCHANGED <<store, nextId, events, clock, budget, clip, pages, subs, published, lock, callers>>

\* run_turn announcing thinking a second time where it should announce streaming
RunThinkingRepeatsStage(t, sendok) ==
  /\ t \in DOMAIN turns
  /\ turns[t].pc = "thinking"
  /\ sendok \in SendOutcomes(turns[t].sess)
  /\ out' = Emit(turns[t].sess, StatusFrame(turns[t].trace_id, "thinking"))
  /\ turns' = IF sendok THEN [turns EXCEPT ![t].pc = "streaming"]
              ELSE CallbackFailed(t, "streaming")
  /\ UNCHANGED <<conn, current_task, current_cancel, current_trace_id, turn_task, nOther>>
  /\ UNCHANGED recv_task
  /\ UNCHANGED <<store, nextId, events, clock, budget, clip, pages, subs, published, lock, callers>>

\* inside the try block: the send of status streaming, then astream is called
RunThinking(t, sendok) ==
  /\ t \in DOMAIN turns
  /\ turns[t].pc = "thinking"
  /\ sendok \in SendOutcomes(turns[t].sess)
  /\ out' = Emit(turns[t].sess, StatusFrame(turns[t].trace_id, "streaming"))
  /\ turns' = IF sendok THEN [turns EXCEPT ![t].pc = "streaming"]
              ELSE CallbackFailed(t, "streaming")
  /\ UNCHANGED <<conn, current_task, current_cancel, current_trace_id, turn_task, nOther>>
  /\ UNCHANGED recv_task
  /\ UNCHANGED <<store, nextId, events, clock, budget, clip, pages, subs, published, lock, callers>>

\* the loop over the fragments never looking at the cancel Event
LoopNeverBreaks(t) == FALSE
\* `if cancel_event.is_set(): break` at the top of the loop body
LoopBreaks(t) == turns[t].cancel

\* the generation capability yields its next fragment: dropped, and the loop left,
\* when the cancel Event is set; else accumulated and sent as a delta
GenYield(t, sendok) ==
  /\ t \in DOMAIN turns
  /\ turns[t].pc = "streaming"
  /\ FragsOf(turns) < MaxFrags
  /\ sendok \in SendOutcomes(turns[t].sess)
  /\ LET d == FragAt(turns[t].nfrag + 1)
     IN IF LoopBreaks(t)
        THEN /\ turns' = [Cancelled(t) EXCEPT ![t].nfrag = @ + 1]
             /\ out' = out
        ELSE /\ out' = Emit(turns[t].sess, DeltaFrame(turns[t].trace_id, d))
             /\ turns' = IF sendok
                         THEN [turns EXCEPT ![t].nfrag = @ + 1, ![t].parts = Append(@, d)]
                         ELSE [CallbackFailed(t, "delta") EXCEPT
                                 ![t].nfrag = @ + 1, ![t].parts = Append(@, d)]
  /\ UNCHANGED <<conn, current_task, current_cancel, current_trace_id, turn_task, nOther>>
  /\ UNCHANGED recv_task
  /\ UNCHANGED <<store, nextId, events, clock, budget, clip, pages, subs, published, lock, callers>>

\* the text of the assistant message without the fragments before the last one
OutTextLastPart(t) ==
  IF turns[t].parts = <<>> THEN <<>> ELSE turns[t].parts[Len(turns[t].parts)]
\* out_text = "".join(out_text_parts)
OutText(t) == Join(turns[t].parts)

\* the assistant message stored under the client_request_id of the request
AssistantKeyOfRequest(T) == T.client_request_id
\* client_request_id=None of the create_message call for the assistant message
AssistantKey(T) == Absent

\* the generation capability ends: the second cancellation check, then the assistant
\* message is stored, message.stored published and the usage counted
GenEnd(t) ==
  /\ t \in DOMAIN turns
  /\ turns[t].pc = "streaming"
  /\ LET T == turns[t]
         text == OutText(t)
         r == CreateMessage(store, nextId, T.conversation_id, "assistant", text,
                            AssistantKey(T), clock, t)
         env == StoredEnvelope(T, r.row.message_id, "assistant")
     IN IF ~PersistsOutput(t)
        THEN /\ turns' = Cancelled(t)
             /\ UNCHANGED <<store, nextId, events, published>>
        ELSE /\ store' = r.store
             /\ nextId' = nextId + 1
             /\ events' = Append(events, env)
             /\ published' = Publish("alpha.message.stored", env)
             /\ turns' = IF PublishRaises("alpha.message.stored")
                         THEN [turns EXCEPT ![t].pc = "raised"]
                         ELSE Returned(t, "completed", r.row.message_id,
                                       <<WordCount(T.content_text), WordCount(text)>>,
                                       <<>>, NoError)
  /\ UNCHANGED <<sessVars, clock, budget, clip, pages, subs, lock, callers>>

\* the generation capability raises
GenFail(t) ==
  /\ t \in DOMAIN turns
  /\ turns[t].pc = "streaming"
  /\ turns' = Unavailable(t)
  /\ UNCHANGED <<sessVars, store, nextId, events, clock, budget, clip, pages, subs, published, lock,
                callers>>

(* ----------------------------- subscribe ------------------------------- *)
\* InProcessEventBus.subscribe(topic, fn)
Subscribe(topic, fn) ==
  /\ Len(subs["alpha.message.received"]) + Len(subs["alpha.message.stored"]) < MaxSubs
  /\ subs' = [subs EXCEPT ![topic] = Append(@, fn)]
  /\ UNCHANGED <<sessVars, coreVars, clock, budget, clip, pages, published, lock, callers>>

(* ------------------- post_message / create_message --------------------- *)
\* what the requests post
StoreConvs == {"c1"}
StoreKeys == {Absent, "", "k1", "k2"}
StoreTexts == {<<"h", "i">>, <<"y", "o">>}

\* post_message calls create_message: new_id() and utc_now_iso() are evaluated, the
\* lock is not yet held
PostMessage(c, conv, crid, text) ==
  /\ callers[c].pc = "idle"
  /\ callers' = [callers EXCEPT ![c] =
                   [NoCall EXCEPT !.pc = "called", !.conversation_id = conv,
                                  !.content_text = text, !.client_request_id = crid,
                                  !.message_id = nextId, !.created_at_utc = clock]]
  /\ nextId' = nextId + 1
  /\ UNCHANGED <<sessVars, turns, store, events, clock, budget, clip, pages, subs, published, lock>>

\* the request enters the block whether the lock is held or not
AcquireUnlocked(c) ==
  /\ callers[c].pc = "called"
  /\ lock' = c
  /\ callers' = [callers EXCEPT ![c].pc = "select"]
  /\ UNCHANGED <<sessVars, coreVars, clock, budget, clip, pages, subs, published>>

\* `with self._lock:` is entered
Acquire(c) ==
  /\ callers[c].pc = "called"
  /\ lock = NoCaller
  /\ lock' = c
  /\ callers' = [callers EXCEPT ![c].pc = "select"]
  /\ UNCHANGED <<sessVars, coreVars, clock, budget, clip, pages, subs, published>>

\* `if client_request_id:` and the SELECT: a row found is returned and the lock
\* released; else the INSERT follows
SelectExisting(c) ==
  /\ callers[c].pc = "select"
  /\ LET C == callers[c]
         found == Existing(store, C.conversation_id, C.client_request_id)
     IN IF ~Falsy(C.client_request_id) /\ found # {}
        THEN /\ callers' = [callers EXCEPT
                             ![c].pc = "done",
                             ![c].ret = store[CHOOSE i \in found : TRUE].message_id,
                             ![c].ret_text = store[CHOOSE i \in found : TRUE].content_text]
             /\ lock' = NoCaller
        ELSE /\ callers' = [callers EXCEPT ![c].pc = "insert"]
             /\ lock' = lock
  /\ UNCHANGED <<sessVars, coreVars, clock, budget, clip, pages, subs, published>>

\* the INSERT and commit: the row is added and returned, or the primary key or
\* idx_messages_idempotent refuses it and sqlite3.IntegrityError leaves the block;
\* the lock is released either way
InsertRow(c) ==
  /\ callers[c].pc = "insert"
  /\ LET C == callers[c]
     IN IF InsertAllowed(store, C.message_id, C.conversation_id, C.client_request_id)
        THEN /\ store' = Append(store, Row(C.message_id, C.conversation_id, "user",
                                           C.content_text, C.client_request_id,
                                           C.created_at_utc, NoTurn))
             /\ callers' = [callers EXCEPT ![c].pc = "done", ![c].ret = C.message_id,
                                           ![c].ret_text = C.content_text]
        ELSE /\ store' = store
             /\ callers' = [callers EXCEPT ![c].pc = "failed"]
  /\ lock' = NoCaller
  /\ UNCHANGED <<sessVars, turns, nextId, events, clock, budget, clip, pages, subs, published>>

(* ---------------------------- list endpoint ---------------------------- *)
\* next_before whenever the page has an item
NextBeforeOfAnyPage(items, limit) ==
  IF items # <<>> THEN items[Len(items)].message_id ELSE NoId
\* next_before = items[-1].id if len(items) == limit else None
NextBefore(items, limit) ==
  IF Len(items) = limit THEN items[Len(items)].message_id ELSE NoId

\* one answered list request; api "store": a call of SqliteStore.list_messages,
\* api "http": GET /conversations/{conversation_id}/messages
Page(api, conv, limit, before_ts, before_id, status, items, next) ==
  [api |-> api, conversation_id |-> conv, limit |-> limit, before_ts |-> before_ts,
   before_id |-> before_id, status |-> status, items |-> items, next_before |-> next]

\* the conversations messages are posted to, and the one that is listed
ListConvs == {"c1", "c2"}
ListedConvs == {"c1"}
Limits == 1..MaxLimit
BeforeTimes == {NoBefore} \cup (0..MaxClock)
\* the ids a client may send as `before`: none, those new_id() may have made, and
\* one of no message
BeforeIds == 0..(MaxMsgs + 1)

\* a second passes on the wall clock
Tick ==
  /\ clock < MaxClock
  /\ clock' = clock + 1
  /\ UNCHANGED <<sessVars, coreVars, budget, clip, pages, subs, published, lock, callers>>

\* POST /messages without client_request_id, from the request to the response
AppendMessage(conv) ==
  /\ Len(store) < budget.msgs
  /\ lock = NoCaller
  /\ store' = CreateMessage(store, nextId, conv, "user", <<"h", "i">>, Absent, clock,
                            NoTurn).store
  /\ nextId' = nextId + 1
  /\ UNCHANGED <<sessVars, turns, events, clock, budget, clip, pages, subs, published, lock,
                 callers>>

\* SqliteStore.list_messages(conv, limit=limit, before_created_at_utc=before)
ListStore(conv, limit, before) ==
  /\ Len(pages) < budget.pages
  /\ lock = NoCaller
  /\ \E res \in ListMessages(store, conv, limit, before) :
       pages' = Append(pages, Page("store", conv, limit, before, NoId, "ok", res, NoId))
  /\ UNCHANGED <<sessVars, coreVars, clock, budget, clip, subs, published, lock, callers>>

\* the list endpoint: `before` is a message id, looked up for its created_at_utc
ListHttp(conv, limit, before) ==
  /\ Len(pages) < budget.pages
  /\ lock = NoCaller
  /\ IF before # NoId /\ GetMessage(store, before) = {}
     THEN pages' = Append(pages, Page("http", conv, limit, NoBefore, before,
                                      "NOT_FOUND", <<>>, NoId))
     ELSE LET ts == IF before = NoId THEN NoBefore
                    ELSE store[CHOOSE i \in GetMessage(store, before) : TRUE].created_at_utc
          IN \E res \in ListMessages(store, conv, limit, ts) :
               pages' = Append(pages, Page("http", conv, limit, ts, before, "ok", res,
                                           NextBefore(res, limit)))
  /\ UNCHANGED <<sessVars, coreVars, clock, budget, clip, subs, published, lock, callers>>

(* ----------------------------- clip_lines ------------------------------ *)
\* the characters of the texts: one that ends no line, and the line ends \\n and \\r
ClipChars == {"a", "\n", "\r"}
ClipTexts == UNION {[1..n -> ClipChars] : n \in 0..MaxClipLen}
RECURSIVE SplitLinesFrom(_, _)
\* str.splitlines of what follows the characters cur of an unfinished line: a line
\* ends at \\r\\n, \\n or \\r; the text after the last line end is a line unless empty
SplitLinesFrom(text, cur) ==
  IF text = <<>> THEN (IF cur = <<>> THEN <<>> ELSE <<cur>>)
  ELSE IF Len(text) >= 2 /\ text[1] = "\r" /\ text[2] = "\n"
       THEN <<cur>> \o SplitLinesFrom(SubSeq(text, 3, Len(text)), <<>>)
       ELSE IF Head(text) \in {"\n", "\r"}
            THEN <<cur>> \o SplitLinesFrom(Tail(text), <<>>)
            ELSE SplitLinesFrom(Tail(text), Append(cur, Head(text)))
\* text.splitlines()
SplitLines(text) == SplitLinesFrom(text, <<>>)
RECURSIVE JoinLines(_)
\* "\\n".join(lines)
JoinLines(lines) ==
  IF lines = <<>> THEN <<>>
  ELSE IF Len(lines) = 1 THEN lines[1]
       ELSE lines[1] \o <<"\n">> \o JoinLines(Tail(lines))
DigitChars == <<"0", "1", "2", "3", "4", "5", "6", "7", "8", "9">>
RECURSIVE Decimal(_)
\* str(n) of a natural number
Decimal(n) ==
  IF n < 10 THEN <<DigitChars[n + 1]>>
  ELSE Decimal(n \div 10) \o <<DigitChars[(n % 10) + 1]>>
\* the marker line, its words left out: "...(" remain ")"
Marker(remain) == <<".", ".", ".", "(">> \o Decimal(remain) \o <<")">>
\* the marker counting every line of the text
RemainOfAllLines(n, max_lines) == n
\* remain = len(lines) - max_lines
Remain(n, max_lines) == n - max_lines
\* clip_lines(text, max_lines)
ClipLines(text, max_lines) ==
  LET lines == SplitLines(text)
  IN IF lines = <<>> THEN <<>>
     ELSE IF Len(lines) <= max_lines THEN JoinLines(lines)
          ELSE JoinLines(SubSeq(lines, 1, max_lines)
                           \o <<Marker(Remain(Len(lines), max_lines))>>)

\* the call runs
Clip ==
  /\ ~clip.done
  /\ clip' = [clip EXCEPT !.done = TRUE, !.result = ClipLines(clip.text, clip.max_lines)]
  /\ UNCHANGED <<sessVars, coreVars, clock, budget, pages, subs, published, lock, callers>>

(* --------------------------- specification ----------------------------- *)
AllTurnIds == 1..Len(TraceName)

StartStep(s) == \E f \in StartFrames : RecvUserMessage(s, f)
CancelStep(s) == \E f \in CancelFrames : RecvCancel(s, f)
MalformedStep(s) == \E f \in MalformedFrames : RecvMalformed(s, f)

\* the steps of the finish_turn task and what the main loop does when it is done
FinishStep(s) == ObserveTurnTask(s) \/ FinishSend(s) \/ FinishClear(s)

\* the steps of the run_turn task t
TurnStep(t) ==
  \/ \E ok \in BOOLEAN : RunStart(t, ok)
  \/ \E ok \in BOOLEAN : RunQueued(t, ok)
  \/ \E ok \in BOOLEAN : RunThinking(t, ok)
  \/ \E ok \in BOOLEAN : GenYield(t, ok)
  \/ GenEnd(t)
  \/ GenFail(t)

\* a connection that stays open: every payload a client may send, in any order
Next ==
  \/ \E s \in MainSessions : Connect(s)
  \/ \E s \in MainSessions : StartStep(s)
  \/ \E s \in MainSessions : CancelStep(s)
  \/ \E s \in MainSessions : MalformedStep(s)
  \/ \E s \in MainSessions : FinishStep(s)
  \/ \E t \in AllTurnIds : TurnStep(t)

Spec == Init /\ [][Next]_vars

\* a client that sends user_message payloads only
NextStart ==
  \/ \E s \in MainSessions : Connect(s)
  \/ \E s \in MainSessions : StartStep(s)
  \/ \E s \in MainSessions : FinishStep(s)
  \/ \E t \in AllTurnIds : TurnStep(t)

SpecStart == Init /\ [][NextStart]_vars
SpecB2B == InitB2B /\ [][NextStart]_vars

\* the same client, and the exception of a run_turn that reaches the connection
NextRetry ==
  \/ NextStart
  \/ \E s \in MainSessions : FinishRaised(s)
SpecRetry == InitRetry /\ [][NextRetry]_vars

\* subscribers are registered on the bus, before and while a client runs turns
InitBus ==
  InitWith(Bounds(MaxTurnsBus, MaxOtherBus, {Absent}))
NextBus ==
  \/ NextStart
  \/ \E s \in MainSessions : FinishRaised(s)
  \/ \E topic \in Topics : \E fn \in Fns : Subscribe(topic, fn)
SpecBus == InitBus /\ [][NextBus]_vars

\* a connection that the client may drop
NextDisc ==
  \/ NextStart
  \/ \E s \in MainSessions : Disconnect(s)
  \/ \E s \in MainSessions : Drained(s)

SpecDisc == InitDisc /\ [][NextDisc]_vars

\* HTTP requests posting messages concurrently
NextStore ==
  \/ \E c \in Callers : \E conv \in StoreConvs : \E crid \in StoreKeys :
       \E text \in StoreTexts : PostMessage(c, conv, crid, text)
  \/ \E c \in Callers : Acquire(c)
  \/ \E c \in Callers : SelectExisting(c)
  \/ \E c \in Callers : InsertRow(c)

SpecStore == Init /\ [][NextStore]_vars

ListStoreStep ==
  \E conv \in ListedConvs : \E limit \in Limits \cup {NoLimit} :
    \E before \in BeforeTimes : ListStore(conv, limit, before)
ListHttpStep ==
  \E conv \in ListedConvs : \E limit \in Limits :
    \E before \in BeforeIds : ListHttp(conv, limit, before)

\* one turn on a conversation, the clock, and a client that lists the conversation
InitTurnList ==
  InitWith([Bounds(MaxTurnsList, MaxOtherList, {Absent}) EXCEPT !.pages = MaxPagesTurn])
NextTurnList ==
  \/ NextStart
  \/ Tick
  \/ ListStoreStep
  \/ ListHttpStep
SpecTurnList == InitTurnList /\ [][NextTurnList]_vars

\* messages posted to two conversations, the clock, and clients that page through
\* one of them: with SqliteStore.list_messages, with the list endpoint
InitPaging ==
  InitWith([Bounds(0, 0, {Absent}) EXCEPT !.pages = MaxPages, !.msgs = MaxMsgs])
InitPagingHttp ==
  InitWith([Bounds(0, 0, {Absent}) EXCEPT !.pages = MaxPagesHttp, !.msgs = MaxMsgs])
NextListStore ==
  \/ \E conv \in ListConvs : AppendMessage(conv)
  \/ Tick
  \/ ListStoreStep
SpecListStore == InitPaging /\ [][NextListStore]_vars
NextListHttp ==
  \/ \E conv \in ListConvs : AppendMessage(conv)
  \/ Tick
  \/ ListHttpStep
SpecListHttp == InitPagingHttp /\ [][NextListHttp]_vars

\* turns that retry on one conversation, a client of the list endpoint, and the
\* clock
InitLog ==
  InitWith([Bounds(MaxTurnsLog, MaxOtherLog, {"k1"})
              EXCEPT !.convs = {"c1"}, !.pages = MaxPagesLog])
NextLog ==
  \/ NextStart
  \/ Tick
  \/ ListHttpStep
SpecLog == InitLog /\ [][NextLog]_vars

\* clip_lines called on a text with a positive max_lines (env_positive_int)
InitClip ==
  /\ \E text \in ClipTexts : \E max_lines \in 1..MaxClipLines :
       clip = ClipCall(text, max_lines)
  /\ budget = Bounds(0, 0, {Absent})
  /\ lock = NoCaller
  /\ callers = [c \in Callers |-> NoCall]
  /\ conn = [s \in SessionIds |-> "absent"]
  /\ current_task = [s \in SessionIds |-> NoTurn]
  /\ current_cancel = [s \in SessionIds |-> NoTurn]
  /\ current_trace_id = [s \in SessionIds |-> Absent]
  /\ turn_task = [s \in SessionIds |-> NoTurnTask]
  /\ out = [s \in SessionIds |-> <<>>]
  /\ nOther = [s \in SessionIds |-> 0]
  /\ recv_task = [s \in SessionIds |-> 0]
  /\ turns = <<>>
  /\ store = <<>>
  /\ nextId = 1
  /\ events = <<>>
  /\ clock = 0
  /\ pages = <<>>
  /\ subs = [tp \in Topics |-> <<>>]
  /\ published = <<>>
SpecClip == InitClip /\ [][Clip]_vars

\* one turn on a text of some words
InitUsage ==
  InitWith([Bounds(MaxTurnsUsage, MaxOtherUsage, {Absent}) EXCEPT !.texts = UsageTexts])
SpecUsage == InitUsage /\ [][NextStart]_vars

\* two connections at once, each with its own client, on one conversation
InitTwo == InitWith([Bounds(MaxTurnsTwo, MaxOtherTwo, {Absent}) EXCEPT !.convs = {"c1"}])
\* the payloads that start no turn, of both clients together
OthersTwo == nOther["s1"] + nOther["s2"] <= MaxOtherTwo
NextTwo ==
  \/ \E s \in SessionIds : Connect(s)
  \/ \E s \in SessionIds : StartStep(s) /\ OthersTwo'
  \/ \E s \in SessionIds : CancelStep(s) /\ OthersTwo'
  \/ \E s \in SessionIds : FinishStep(s)
  \/ \E t \in AllTurnIds : TurnStep(t)
SpecTwo == InitTwo /\ [][NextTwo]_vars

\* turns of one session on an Orchestrator constructed with some context_limit, and
\* the clock
InitContext ==
  \E cfg \in 0..MaxContextLimit :
    InitWith([Bounds(MaxTurnsCtx, MaxOtherCtx, {Absent, "k1"})
                EXCEPT !.context_limit = cfg])
NextContext ==
  \/ NextStart
  \/ Tick
SpecContext == InitContext /\ [][NextContext]_vars

(* ---------------------------- properties ------------------------------- *)
\* positions in the frames sent to s of the done frames that carry trace
DoneFramesOf(s, trace) ==
  {i \in DOMAIN out[s] : out[s][i].type = "assistant_done" /\ out[s][i].trace_id = trace}
\* positions of the done frames that finish_turn sent for the result of turn t
ResultFramesOf(t) ==
  {i \in DOMAIN out[turns[t].sess] :
     out[turns[t].sess][i].type = "assistant_done" /\ out[turns[t].sess][i].turn = t}
\* the done frame at position i reports the TurnResult of turn t
ReportsResult(t, i) ==
  LET fr == out[turns[t].sess][i]
  IN /\ fr.trace_id = turns[t].trace_id /\ fr.reason = turns[t].reason
     /\ fr.message_id = turns[t].assistant_id /\ fr.usage = turns[t].usage
     /\ fr.capability_warnings = turns[t].warnings /\ fr.error = turns[t].error
\* the run_turn calls of session s that have not returned
CallsInFlight(s) == {t \in DOMAIN turns : turns[t].sess = s /\ InFlight(t)}
\* the connection is open and the session holds no task: no finish_turn is pending,
\* and none is started before the next turn is accepted
Idle(s) ==
  conn[s] = "open" /\ current_task[s] = NoTurn /\ turn_task[s].st \in {"none", "finished"}
\* the assistant rows of the message log that turn t wrote
AssistantRowsOf(t) ==
  {i \in DOMAIN store : store[i].role = "assistant" /\ store[i].writer = t}
\* every trace id a frame may carry
AllTraces == {TraceName[i] : i \in DOMAIN TraceName}
\* every user_message payload that validates
AllStartFrames ==
  {Obj("user_message", tr, cv, tx, cr) :
     tr \in {Absent} \cup AllTraces, cv \in {Absent, "c1"}, tx \in Texts,
     cr \in {Absent, "k1"}}
\* every cancel payload that validates
AllCancelFrames == {Obj("cancel", tr, Absent, MissingText, Absent) : tr \in AllTraces}
\* every payload that is no valid frame
AllMalformedFrames ==
  {Garbage, NonObject}
    \cup {Obj(ty, tr, "c1", MissingText, Absent) :
            ty \in {"ping", "user_message"}, tr \in {Absent, BadVal} \cup AllTraces}
    \cup {Obj("cancel", tr, Absent, MissingText, Absent) : tr \in {Absent, BadVal}}
    \cup {Obj("user_message", BadVal, "c1", tx, Absent) : tx \in Texts}

\* C1: for every turn the session starts, at most one assistant_done frame that
\* carries the turn's trace_id is ever sent on its connection.
C1_AtMostOneDonePerTrace ==
  \A t \in DOMAIN turns :
    Cardinality(DoneFramesOf(turns[t].sess, turns[t].trace_id)) <= 1

\* C2: every accepted start-turn frame is eventually followed by the done frame
\* with the result of its run_turn call, provided the connection stays open and
\* the call returns.  Stated on the states where the eventuality has run out: once
\* the session is idle, no step sends the done frame of a turn started before, so
\* every such turn that returned must have its done frame on the connection.
C2_ReturnedTurnIsReported ==
  \A t \in DOMAIN turns :
    (turns[t].pc = "returned" /\ Idle(turns[t].sess))
      => \E i \in ResultFramesOf(t) : ReportsResult(t, i)

\* C3: at every moment at most one run_turn call started by a session is in flight.
C3_AtMostOneCallInFlight ==
  \A s \in MainSessions : Cardinality(CallsInFlight(s)) <= 1

\* C4: a start-turn frame handled while a run_turn call of the same session has not
\* returned is answered with a done frame reason=error, code CONFLICT, and starts
\* no call, persists nothing and publishes nothing.
C4_StartWhileInFlightIsConflict ==
  [][\A s \in MainSessions : \A f \in AllStartFrames :
       (RecvUserMessage(s, f) /\ CallsInFlight(s) # {})
         => /\ Len(out'[s]) = Len(out[s]) + 1
            /\ out'[s][Len(out'[s])].type = "assistant_done"
            /\ out'[s][Len(out'[s])].reason = "error"
            /\ out'[s][Len(out'[s])].error = "CONFLICT"
            /\ UNCHANGED <<turns, store, events>>]_vars

\* every turn that a CONFLICT frame names, that has returned and whose session is idle
\* again has had the done frame with its result sent
ConflictedTurnsReported ==
  \A t \in DOMAIN turns :
    (/\ \E i \in DoneFramesOf(turns[t].sess, turns[t].trace_id) :
           out[turns[t].sess][i].error = "CONFLICT"
     /\ turns[t].pc = "returned"
     /\ Idle(turns[t].sess))
      => \E i \in ResultFramesOf(t) : ReportsResult(t, i)

\* C5: a start-turn frame rejected with CONFLICT leaves current_task, current_cancel
\* and current_trace_id unchanged and sets no cancel Event, and the done frame of
\* the turn that was in flight (the one the CONFLICT frame names) is still sent
\* with the result of its call: after every step, a turn so named that has returned
\* and whose session is idle has its done frame on the connection.
C5_ConflictLeavesTurnUndisturbed ==
  [][/\ \A s \in MainSessions : \A f \in AllStartFrames :
          (RecvUserMessage(s, f) /\ TurnRunning(s))
            => UNCHANGED <<current_task, current_cancel, current_trace_id, turns>>
     /\ ConflictedTurnsReported']_vars

\* C6: a cancel frame sets the cancel Event of a turn only if that turn's run_turn
\* call is in flight on this session and the frame's trace_id is that turn's; when
\* no call in flight on the session has the frame's trace_id, the frame is answered
\* with a done frame reason=error, code NOT_FOUND, and no cancel Event is set.
C6_CancelSetsSignalOnlyOnMatch ==
  [][\A s \in MainSessions : \A f \in AllCancelFrames :
       RecvCancel(s, f)
         => LET match == {t \in CallsInFlight(s) : turns[t].trace_id = f.trace_id}
            IN /\ \A t \in DOMAIN turns :
                    (turns'[t].cancel /\ ~turns[t].cancel) => t \in match
               /\ match = {}
                    => /\ out'[s] = Append(out[s], ErrorDone(f.trace_id, "NOT_FOUND"))
                       /\ turns' = turns]_vars

\* C6 witness: a cancel frame was accepted and set the cancel Event of a turn
C6_CancelWasAccepted ==
  \E t \in DOMAIN turns : turns[t].cancel /\ conn[turns[t].sess] = "open"

\* C7: if a cancel frame with the running turn's trace_id is accepted before the
\* run_turn call returns, the turn's done frame has reason cancelled and the
\* message log holds no assistant message of the turn, however many fragments were
\* streamed: every done frame sent for the turn says cancelled, and the frame has
\* been sent once the call has returned and the session is idle.
C7_AcceptedCancelEndsCancelled ==
  \A t \in DOMAIN turns :
    turns[t].cancel
      => /\ AssistantRowsOf(t) = {}
         /\ \A i \in ResultFramesOf(t) : out[turns[t].sess][i].reason = "cancelled"
         /\ (turns[t].pc = "returned" /\ Idle(turns[t].sess)) => ResultFramesOf(t) # {}

\* C8: a turn has persisted an assistant message if and only if its result has
\* reason completed.  A TurnResult with reason cancelled or error has no assistant
\* message, the done frame sent for it has no message_id, and the message log holds
\* no assistant row written by the turn; a completed one has exactly the row with
\* the joined fragments, and its done frame names it.
C8_AssistantPersistedIffCompleted ==
  \A t \in DOMAIN turns :
    LET T == turns[t]
        done == T.pc = "returned"
    IN /\ (AssistantRowsOf(t) # {}) <=> (done /\ T.reason = "completed")
       /\ done => T.reason \in {"completed", "cancelled", "error"}
       /\ done => ((T.assistant_id # NoId) <=> (T.reason = "completed"))
       /\ (done /\ T.reason = "completed")
            => /\ Cardinality(AssistantRowsOf(t)) = 1
               /\ \A r \in AssistantRowsOf(t) :
                    /\ store[r].message_id = T.assistant_id
                    /\ store[r].content_text = Join(T.parts)
       /\ \A i \in ResultFramesOf(t) :
            LET fr == out[T.sess][i]
            IN /\ done /\ fr.reason = T.reason
               /\ (fr.reason # "completed") => fr.message_id = NoId
               /\ (fr.reason = "completed") => fr.message_id = T.assistant_id

\* C8 witness: the done frame of a turn that failed after fragments were streamed
C8_ErrorAfterFragments ==
  \E t \in DOMAIN turns : \E i \in ResultFramesOf(t) :
    /\ out[turns[t].sess][i].reason = "error"
    /\ turns[t].parts # <<>>
    /\ \E k \in 1..i : out[turns[t].sess][k].type = "assistant_delta"

\* C9: every inbound payload that is unparseable, no JSON object, of an unknown type
\* or against the frame schema (a trace_id of the wrong type included) is answered
\* with a done frame reason=error, code INVALID_ARGUMENT, and the connection stays
\* open, so that later frames are handled.
C9_MalformedAnsweredInvalidArgument ==
  [][\A s \in MainSessions : \A f \in AllMalformedFrames :
       RecvMalformed(s, f)
         => /\ conn'[s] = "open"
            /\ Len(out'[s]) = Len(out[s]) + 1
            /\ out'[s][Len(out'[s])].type = "assistant_done"
            /\ out'[s][Len(out'[s])].reason = "error"
            /\ out'[s][Len(out'[s])].error = "INVALID_ARGUMENT"]_vars

\* turn t was running when a cancel frame of another trace_id was answered with
\* NOT_FOUND: the NOT_FOUND frame lies between two frames that run_turn sent for t
MismatchedCancelDuring(t) ==
  LET o == out[turns[t].sess]
  IN \E i, j, k \in DOMAIN o :
       /\ i < j /\ j < k
       /\ o[i].type = "assistant_status" /\ o[i].trace_id = turns[t].trace_id
       /\ o[j].type = "assistant_done" /\ o[j].error = "NOT_FOUND"
       /\ o[j].trace_id # turns[t].trace_id
       /\ o[k].type \in {"assistant_status", "assistant_delta"}
       /\ o[k].trace_id = turns[t].trace_id
\* every such turn that has returned, uncancelled and without a generation failure,
\* completed, persisted its assistant message and, the session idle again, has had
\* its done frame sent
MismatchedTurnsComplete ==
  \A t \in DOMAIN turns :
    (/\ MismatchedCancelDuring(t)
     /\ turns[t].pc = "returned" /\ ~turns[t].cancel /\ turns[t].error = NoError)
      => /\ turns[t].reason = "completed"
         /\ AssistantRowsOf(t) # {}
         /\ \A i \in ResultFramesOf(t) : out[turns[t].sess][i].reason = "completed"
         /\ Idle(turns[t].sess) => ResultFramesOf(t) # {}

\* C10: a cancel frame whose trace_id differs from the running turn's is answered
\* with NOT_FOUND and sets no cancel Event, and the running turn still completes
\* normally: provided generation does not fail, its done frame is sent with reason
\* completed and its assistant message is persisted.
C10_MismatchedCancelLeavesTurn ==
  [][/\ \A s \in MainSessions : \A f \in AllCancelFrames :
          (/\ RecvCancel(s, f) /\ TurnRunning(s)
           /\ f.trace_id # turns[current_task[s]].trace_id)
            => /\ out'[s] = Append(out[s], ErrorDone(f.trace_id, "NOT_FOUND"))
               /\ turns' = turns
     /\ MismatchedTurnsComplete']_vars

\* C11: accepting a cancel frame only sets the cancel Event: the step sends no
\* frame and leaves current_task, current_cancel and current_trace_id as they were,
\* the task still running; and a session whose running turn had its cancel accepted
\* goes back to idle (current_task None) only once that turn's call has returned.
C11_AcceptedCancelKeepsRunning ==
  [][/\ \A s \in MainSessions : \A f \in AllCancelFrames :
          (RecvCancel(s, f) /\ CancelAccepted(s, f))
            => /\ out' = out
               /\ UNCHANGED <<current_task, current_cancel, current_trace_id>>
               /\ turns'[current_task[s]].cancel
               /\ turns'[current_task[s]].pc = turns[current_task[s]].pc
     /\ \A s \in MainSessions :
          (/\ current_task[s] # NoTurn /\ turns[current_task[s]].cancel
           /\ current_task'[s] = NoTurn)
            => turns[current_task[s]].pc = "returned"]_vars

\* C12: when the connection is dropped while a run_turn call started by the session
\* has not returned, the session sets the cancel Event of that call, and it
\* releases its resources (ws_chat ends) only after every such call has returned
\* or raised.
C12_DisconnectCancelsAndWaits ==
  [][\A s \in MainSessions :
       /\ Disconnect(s) => \A t \in CallsInFlight(s) : turns'[t].cancel
       /\ conn'[s] = "closed" => CallsInFlight(s)' = {}]_vars

\* C13: at no point are two reads outstanding on the same connection: the main
\* loop creates a receive_text() task only when the previous one has resolved and
\* has been taken.
C13_AtMostOneReadOutstanding ==
  \A s \in SessionIds : recv_task[s] <= 1

\* C13 witness: the main loop went round because a turn completed, not because the
\* read resolved, and still one read is outstanding
C13_LoopedOnTurnCompletion ==
  \E s \in MainSessions :
    /\ conn[s] = "open" /\ recv_task[s] = 1 /\ turn_task[s].st = "none"
    /\ \E t \in DOMAIN turns : turns[t].sess = s /\ ResultFramesOf(t) # {}

\* while a run_turn call of an open session is in flight, a read is pending and a
\* finish_turn task is pending with it
ReadAndCompletionAwaited ==
  \A s \in MainSessions :
    (conn[s] = "open" /\ CallsInFlight(s) # {})
      => recv_task[s] = 1 /\ turn_task[s].st # "none"

\* C14: while a turn is in flight the session keeps a read pending and awaits the
\* turn's completion with it; a frame that arrives is handled without the turn
\* having completed, and each wake-up re-arms only the operation that resolved:
\* handling a frame leaves a pending finish_turn task as it is, observing a finished
\* turn leaves the pending read as it is.
C14_ReadAndTurnMultiplexed ==
  [][/\ \A s \in MainSessions : \A f \in AllStartFrames :
          (RecvUserMessage(s, f) /\ turn_task[s].st \in {"awaiting", "sending"})
            => turn_task'[s] = turn_task[s] /\ recv_task'[s] = 1
     /\ \A s \in MainSessions : ObserveTurnTask(s) => recv_task'[s] = recv_task[s]
     /\ ReadAndCompletionAwaited']_vars

\* the delta frames sent for turn t, in order
DeltasSentOf(t) ==
  SelectSeq(out[turns[t].sess],
            LAMBDA fr : fr.type = "assistant_delta" /\ fr.trace_id = turns[t].trace_id)
\* every TurnResult with reason error carries code UNAVAILABLE and the warning for
\* the generation capability and no assistant message, no assistant row of the turn
\* is in the message log, and on a connection still open the deltas sent are the
\* fragments forwarded before the failure, all of them
ErrorResultsKeepDeltas ==
  \A t \in DOMAIN turns :
    (turns[t].pc = "returned" /\ turns[t].reason = "error")
      => /\ turns[t].error = "UNAVAILABLE"
         /\ turns[t].warnings = LlmDown
         /\ turns[t].assistant_id = NoId
         /\ AssistantRowsOf(t) = {}
         /\ conn[turns[t].sess] = "open"
              => /\ Len(DeltasSentOf(t)) = Len(turns[t].parts)
                 /\ \A j \in 1..Len(turns[t].parts) :
                      DeltasSentOf(t)[j].delta = turns[t].parts[j]

\* C15: a generation capability that fails after delivering k >= 0 fragments makes
\* run_turn return reason error with code UNAVAILABLE and a capability warning for
\* the generation capability; no assistant message is persisted and the k deltas
\* already forwarded stay sent.
C15_GenerationFailureIsError ==
  [][/\ \A t \in AllTurnIds :
          GenFail(t)
            => /\ turns'[t].pc = "returned" /\ turns'[t].reason = "error"
               /\ turns'[t].parts = turns[t].parts
               /\ out' = out /\ store' = store
     /\ ErrorResultsKeepDeltas']_vars

\* C15 witness: the generation failed after the two fragments "a", " b" were sent
C15_FailedAfterTwoFragments ==
  \E t \in DOMAIN turns :
    /\ turns[t].pc = "returned" /\ turns[t].reason = "error"
    /\ conn[turns[t].sess] = "open"
    /\ Len(turns[t].parts) = 2 /\ Len(DeltasSentOf(t)) = 2

\* the status and delta frames sent for turn t, in order: what its callbacks sent
CallbackFramesOf(t) ==
  SelectSeq(out[turns[t].sess],
            LAMBDA fr : /\ fr.type \in {"assistant_status", "assistant_delta"}
                        /\ fr.trace_id = turns[t].trace_id)

\* C16: in every run_turn call the status callback is invoked with queued, then
\* thinking, then streaming, each at most once and in that order; every delta
\* comes after the streaming status and no status comes after it.  On an open
\* connection the frames of a call are what its callbacks were invoked with.
C16_StatusOrder ==
  \A t \in DOMAIN turns :
    LET fs == CallbackFramesOf(t)
    IN /\ \A i \in DOMAIN fs :
            /\ (i <= 3) => fs[i].type = "assistant_status"
            /\ (i = 1) => fs[i].stage = "queued"
            /\ (i = 2) => fs[i].stage = "thinking"
            /\ (i = 3) => fs[i].stage = "streaming"
            /\ (i > 3) => fs[i].type = "assistant_delta"
       /\ (conn[turns[t].sess] = "open" /\ turns[t].pc = "queued") => Len(fs) = 1
       /\ (conn[turns[t].sess] = "open" /\ turns[t].pc = "thinking") => Len(fs) = 2
       /\ (conn[turns[t].sess] = "open" /\ turns[t].pc = "streaming")
            => Len(fs) = 3 + Len(turns[t].parts)

\* C16 witness: a call that sent its three statuses and then a delta
C16_StreamedAfterStatuses ==
  \E t \in DOMAIN turns :
    /\ Len(CallbackFramesOf(t)) >= 4
    /\ CallbackFramesOf(t)[4].type = "assistant_delta"

\* C17: if the cancel Event is set when run_turn reaches its first cancellation
\* check (after status queued), the call returns reason cancelled with no assistant
\* message and zero usage, the generation capability is not invoked (no status
\* thinking or streaming, no fragment) and no delta is forwarded.
C17_CancelBeforeGeneration ==
  [][\A t \in DOMAIN turns :
       (/\ turns[t].pc = "queued" /\ turns[t].cancel
        /\ turns'[t].pc \notin {"queued", "aborted"})
         => /\ turns'[t].pc = "returned" /\ turns'[t].reason = "cancelled"
            /\ turns'[t].assistant_id = NoId /\ turns'[t].usage = <<0, 0>>
            /\ turns'[t].nfrag = 0 /\ turns'[t].parts = <<>>
            /\ turns'[t].warnings = <<>> /\ turns'[t].error = NoError
            /\ out' = out /\ store' = store /\ events' = events
            /\ AssistantRowsOf(t) = {}
            /\ \A i \in DOMAIN out[turns[t].sess] :
                 out[turns[t].sess][i].trace_id = turns[t].trace_id
                   => /\ out[turns[t].sess][i].type # "assistant_delta"
                      /\ out[turns[t].sess][i].stage \notin {"thinking", "streaming"}]_vars

\* C17 witness: a call that returned cancelled from its first check, having sent
\* status queued and nothing else
C17_CancelledAtFirstCheck ==
  \E t \in DOMAIN turns :
    /\ turns[t].pc = "returned" /\ turns[t].reason = "cancelled" /\ turns[t].cancel
    /\ conn[turns[t].sess] = "open"
    /\ Len(CallbackFramesOf(t)) = 1 /\ turns[t].nfrag = 0

\* the post_message call of request c has returned or raised
Finished(c) == callers[c].pc \in {"done", "failed"}
\* the requests that called post_message with the idempotency pair (conv, crid)
CallersOf(conv, crid) ==
  {c \in Callers : /\ callers[c].pc # "idle" /\ callers[c].conversation_id = conv
                   /\ callers[c].client_request_id = crid}

\* C18: two create-message calls with the same (conversation_id,
\* client_request_id) and whatever content both return the same stored message,
\* with the id and the content of the first, and leave one row; calls with different
\* client_request_id return distinct messages.
C18_SameKeySameMessage ==
  \A a, b \in Callers :
    (/\ a # b /\ Finished(a) /\ Finished(b)
     /\ callers[a].conversation_id = callers[b].conversation_id
     /\ callers[a].client_request_id # Absent /\ callers[b].client_request_id # Absent)
      => /\ callers[a].pc = "done" /\ callers[b].pc = "done"
         /\ IF callers[a].client_request_id = callers[b].client_request_id
            THEN /\ callers[a].ret = callers[b].ret
                 /\ callers[a].ret_text = callers[b].ret_text
                 /\ \E i \in DOMAIN store :
                      /\ Existing(store, callers[a].conversation_id,
                                  callers[a].client_request_id) = {i}
                      /\ store[i].message_id = callers[a].ret
                      /\ store[i].content_text = callers[a].ret_text
            ELSE callers[a].ret # callers[b].ret

\* C19: after any sequence of appends a conversation holds at most one message per
\* non-null client_request_id, and an append that collides on (conversation_id,
\* client_request_id) returns the original row and does not fail, for every
\* non-null client_request_id, the empty string included.
C19_CollisionReturnsOriginal ==
  /\ \A conv \in StoreConvs : \A crid \in StoreKeys \ {Absent} :
       Cardinality(Existing(store, conv, crid)) <= 1
  /\ \A c \in Callers :
       (Finished(c) /\ callers[c].client_request_id # Absent)
         => /\ callers[c].pc = "done"
            /\ \E i \in Existing(store, callers[c].conversation_id,
                                 callers[c].client_request_id) :
                 store[i].message_id = callers[c].ret

\* C20: the check-then-insert of create_message is atomic: whatever the
\* interleaving of the calls made with one (conversation_id, client_request_id),
\* once they have all finished exactly one row of that pair was inserted and every
\* one of them returned that row's message id.
C20_ConcurrentAppendsOneRow ==
  \A conv \in StoreConvs : \A crid \in StoreKeys \ {Absent} :
    LET cs == CallersOf(conv, crid)
        rows == Existing(store, conv, crid)
    IN /\ Cardinality(rows) <= 1
       /\ (Cardinality(cs) >= 2 /\ \A c \in cs : Finished(c))
            => /\ Cardinality(rows) = 1
               /\ \A c \in cs : /\ callers[c].pc = "done"
                                /\ \A i \in rows : callers[c].ret = store[i].message_id

\* the first create_message call of run_turn t raised: run_turn ended without a
\* user_row
UserStoreRaised(t) == turns[t].pc = "raised" /\ turns[t].user_row_id = NoId
\* run_turn t has made its first create_message call
UserStoreCalled(t) == turns[t].user_row_id # NoId \/ UserStoreRaised(t)
\* the user rows of the log under (conv, crid)
UserRowsOf(conv, crid) == {i \in Existing(store, conv, crid) : store[i].role = "user"}

\* C21: two run_turn calls with the same conversation_id and the same non-null
\* client_request_id store one user message: the second call has for user_message
\* the message the first call stored, and the log holds a single user message
\* under that key.
C21_RetriedTurnStoresOneUserMessage ==
  \A a, b \in DOMAIN turns :
    (/\ a < b
     /\ UserStoreCalled(a) /\ UserStoreCalled(b)
     /\ turns[a].conversation_id = turns[b].conversation_id
     /\ turns[a].client_request_id = turns[b].client_request_id
     /\ turns[a].client_request_id # Absent)
      => /\ ~UserStoreRaised(b)
         /\ turns[b].user_row_id = turns[a].user_row_id
         /\ \E i \in DOMAIN store :
              /\ UserRowsOf(turns[a].conversation_id, turns[a].client_request_id) = {i}
              /\ store[i].message_id = turns[a].user_row_id

\* C22: when a turn completes, the content_text of the assistant message it persisted
\* is the concatenation, in order, of exactly the fragments forwarded to the delta
\* callback during the turn (on a connection still open: the deltas of the frames
\* sent for its trace id), and that message has no client_request_id.
C22_AssistantTextIsForwardedFragments ==
  \A t \in DOMAIN turns :
    (turns[t].pc = "returned" /\ turns[t].reason = "completed")
      => /\ AssistantRowsOf(t) # {}
         /\ \A r \in AssistantRowsOf(t) :
              /\ store[r].client_request_id = Absent
              /\ conn[turns[t].sess] = "open"
                   => /\ Len(DeltasSentOf(t)) = Len(turns[t].parts)
                      /\ store[r].content_text =
                           Join([k \in 1..Len(DeltasSentOf(t)) |-> DeltasSentOf(t)[k].delta])

\* C22 witness: a turn completed after two fragments were forwarded on an open
\* connection, and its assistant message is in the log
C22_CompletedAfterTwoFragments ==
  \E t \in DOMAIN turns :
    /\ turns[t].pc = "returned" /\ turns[t].reason = "completed"
    /\ conn[turns[t].sess] = "open"
    /\ Len(DeltasSentOf(t)) = 2
    /\ AssistantRowsOf(t) # {}

\* the roles of the items of a page, in order
RolesOf(pg) == [k \in DOMAIN pg.items |-> pg.items[k].role]
\* a list request that no `before` and no limit below two narrows
ListsAll(pg) ==
  pg.status = "ok" /\ pg.before_ts = NoBefore /\ (pg.limit = NoLimit \/ pg.limit >= 2)
\* in every page answered so far, the user message of a turn comes before the
\* assistant message of that turn
PagesKeepTurnOrder ==
  \A k \in DOMAIN pages : \A i, j \in DOMAIN pages[k].items :
    (/\ pages[k].items[i].role = "user" /\ pages[k].items[j].role = "assistant"
     /\ pages[k].items[i].writer = pages[k].items[j].writer
     /\ pages[k].items[i].writer # NoTurn)
      => i < j
\* the user row of every turn is in the log before the assistant row of that turn
UserRowPersistedFirst ==
  \A t \in DOMAIN turns : \A a \in AssistantRowsOf(t) :
    \E u \in 1..(a - 1) : store[u].message_id = turns[t].user_row_id

\* C23: once one turn has completed on an empty conversation, a list of that
\* conversation returns exactly two messages, of roles user then assistant; and in
\* general the user message of a turn is persisted before, and listed before, the
\* assistant message of that turn.
C23_ListedUserThenAssistant ==
  [][/\ UserRowPersistedFirst'
     /\ PagesKeepTurnOrder'
     /\ (/\ Len(pages') = Len(pages) + 1
         /\ ListsAll(pages'[Len(pages')])
         /\ \E t \in DOMAIN turns : turns[t].pc = "returned" /\ turns[t].reason = "completed")
          => RolesOf(pages'[Len(pages')]) = <<"user", "assistant">>]_vars

\* the page list_messages just returned
NewPage == pages'[Len(pages')]
\* the created_at_utc of the items of a page
TimesOf(pg) == {pg.items[k].created_at_utc : k \in DOMAIN pg.items}
\* the ids of the items of a page
IdsOf(pg) == {pg.items[k].message_id : k \in DOMAIN pg.items}
\* pg is a right answer of list(conversation_id, limit, before) on the log st
RightPage(pg, st) ==
  LET wanted == {i \in DOMAIN st :
                   /\ st[i].conversation_id = pg.conversation_id
                   /\ pg.before_ts = NoBefore \/ st[i].created_at_utc < pg.before_ts}
      left == {i \in wanted : st[i].message_id \notin IdsOf(pg)}
  IN /\ \A k \in DOMAIN pg.items : \E i \in wanted : st[i] = pg.items[k]
     /\ \A j, k \in DOMAIN pg.items :
          j < k => /\ pg.items[j].created_at_utc <= pg.items[k].created_at_utc
                   /\ pg.items[j].message_id # pg.items[k].message_id
     /\ IF pg.limit = NoLimit
        THEN left = {}
        ELSE /\ Len(pg.items) = IF Cardinality(wanted) < pg.limit
                                 THEN Cardinality(wanted) ELSE pg.limit
             /\ \A i \in left : \A ts \in TimesOf(pg) : st[i].created_at_utc <= ts

\* C24: list(conversation_id, limit, before) returns messages of that conversation
\* only, in non-decreasing created_at order; with a limit, the `limit` most recent of
\* the messages created strictly before `before` (of all its messages when `before`
\* is absent), oldest first; without a limit, all of them.  Recency is that of
\* created_at: no message left out is newer than a message returned.
C24_ListIsMostRecentAscending ==
  [][(Len(pages') = Len(pages) + 1 /\ NewPage.api = "store")
       => RightPage(NewPage, store)]_vars

\* C24 witness: a list with limit 1 and a `before` returned one message, leaving out
\* an older message of the conversation and one created at or after `before`
C24_LimitAndBeforeBothCut ==
  \E k \in DOMAIN pages : \E a, b \in DOMAIN store :
    /\ pages[k].api = "store" /\ pages[k].limit = 1 /\ pages[k].before_ts # NoBefore
    /\ Len(pages[k].items) = 1
    /\ store[a].conversation_id = pages[k].conversation_id
    /\ store[a].created_at_utc < pages[k].items[1].created_at_utc
    /\ store[b].conversation_id = pages[k].conversation_id
    /\ store[b].created_at_utc >= pages[k].before_ts

\* the oldest created_at_utc of a page that has items
OldestOf(pg) == CHOOSE ts \in TimesOf(pg) : \A other \in TimesOf(pg) : ts <= other
\* page j was asked for with `before` set to the oldest created_at of page i
PagedFrom(i, j) ==
  /\ i < j
  /\ pages[i].api = "store" /\ pages[j].api = "store"
  /\ pages[i].conversation_id = pages[j].conversation_id
  /\ pages[i].items # <<>>
  /\ pages[j].before_ts = OldestOf(pages[i])
\* page i is the prior page of j, or an earlier page of the same pagination
SeenBefore(i, j) ==
  \/ PagedFrom(i, j)
  \/ \E m \in DOMAIN pages : PagedFrom(i, m) /\ PagedFrom(m, j)

\* C25: a list whose `before` is the oldest created_at of a prior page returns no
\* message that was returned on that page or on an earlier page of the pagination.
C25_PagingNeverRepeats ==
  \A i, j \in DOMAIN pages :
    SeenBefore(i, j) => IdsOf(pages[i]) \cap IdsOf(pages[j]) = {}

\* C25 witness: three pages of one message each, the second paged from the first and
\* the third from the second
C25_ThreePagesPaged ==
  \E i, m, j \in DOMAIN pages :
    /\ PagedFrom(i, m) /\ PagedFrom(m, j)
    /\ pages[i].limit = 1 /\ pages[m].limit = 1
    /\ Len(pages[m].items) = 1 /\ Len(pages[j].items) = 1

\* page j was asked of the list endpoint with before = next_before of page i
CursorFrom(i, j) ==
  /\ i < j
  /\ pages[i].api = "http" /\ pages[j].api = "http"
  /\ pages[i].conversation_id = pages[j].conversation_id
  /\ pages[i].next_before # NoId
  /\ pages[j].before_id = pages[i].next_before

\* C26: the next_before cursor of a full page designates the oldest item of that
\* page: a request with before = next_before returns only messages older than every
\* item of that page, and no message that page returned.
C26_CursorIsOldestItem ==
  /\ \A i \in DOMAIN pages :
       (pages[i].api = "http" /\ pages[i].next_before # NoId)
         => \E k \in DOMAIN pages[i].items :
              /\ pages[i].items[k].message_id = pages[i].next_before
              /\ pages[i].items[k].created_at_utc = OldestOf(pages[i])
  /\ \A i, j \in DOMAIN pages :
       (CursorFrom(i, j) /\ pages[j].status = "ok")
         => /\ IdsOf(pages[i]) \cap IdsOf(pages[j]) = {}
            /\ \A a \in TimesOf(pages[j]) : \A b \in TimesOf(pages[i]) : a < b

\* C27: the list endpoint returns next_before if and only if the page holds exactly
\* `limit` items; a page of fewer items has no next_before.
C27_NextBeforeIffFullPage ==
  \A k \in DOMAIN pages :
    (pages[k].api = "http" /\ pages[k].status = "ok")
      => /\ Len(pages[k].items) <= pages[k].limit
         /\ (pages[k].next_before # NoId) <=> (Len(pages[k].items) = pages[k].limit)
         /\ (pages[k].next_before # NoId) => pages[k].next_before \in IdsOf(pages[k])

\* C27 witness: a page of limit 2 that was filled and has a next_before, and a later
\* page of limit 2 that holds one item and has none
C27_FullPageThenShortPage ==
  \E i, j \in DOMAIN pages :
    /\ i < j /\ pages[i].api = "http" /\ pages[j].api = "http"
    /\ pages[i].limit = 2 /\ Len(pages[i].items) = 2 /\ pages[i].next_before # NoId
    /\ pages[j].limit = 2 /\ Len(pages[j].items) = 1 /\ pages[j].next_before = NoId

\* C28: the bus never fails its caller: every publish call returns normally, also
\* when a subscriber registered on the topic raises, so that no subscriber aborts a
\* turn.
C28_PublishNeverFailsCaller ==
  \A k \in DOMAIN published : published[k].outcome = "returned"

\* C29: publish(topic, envelope) invokes every subscriber registered on the topic
\* exactly once, in registration order, and no subscriber of another topic.
C29_PublishInvokesAllInOrder ==
  \A k \in DOMAIN published :
    published[k].invoked =
      [j \in 1..Len(published[k].registered) |->
         [topic |-> published[k].topic, pos |-> j, fn |-> published[k].registered[j]]]

\* the events published with the trace id of turn t, in order
EventsOf(t) == SelectSeq(events, LAMBDA e : e.trace_id = turns[t].trace_id)

\* C30: the events published with the trace id of a turn are, in this order:
\* message.received; message.stored for the user message, once that message is in the
\* log; message.stored for the assistant message, only when the turn completes and
\* once that message is in the log.  No other event is published: fragments are sent
\* to the client and never published.
C30_EventOrderPerTrace ==
  /\ \A k \in DOMAIN events :
       /\ events[k].type \in {"message.received", "message.stored"}
       /\ \E t \in DOMAIN turns : events[k].trace_id = turns[t].trace_id
  /\ \A t \in DOMAIN turns :
       LET E == EventsOf(t)
           T == turns[t]
       IN /\ Len(E) \in 1..3
          /\ E[1].type = "message.received" /\ E[1].message_id = T.user_message_id
          /\ (Len(E) >= 2) <=> (T.user_row_id # NoId)
          /\ Len(E) >= 2
               => /\ E[2].type = "message.stored" /\ E[2].role = "user"
                  /\ E[2].message_id = T.user_row_id
                  /\ \E i \in DOMAIN store :
                       store[i].message_id = E[2].message_id /\ store[i].role = "user"
          /\ (Len(E) = 3) <=> (T.pc = "returned" /\ T.reason = "completed")
          /\ Len(E) = 3
               => /\ E[3].type = "message.stored" /\ E[3].role = "assistant"
                  /\ E[3].message_id = T.assistant_id
                  /\ \E i \in AssistantRowsOf(t) : store[i].message_id = E[3].message_id

\* C30 witness: a turn that completed after a fragment was sent to the client has
\* its three events, and nothing else was published with its trace id
C30_CompletedTurnHasThreeEvents ==
  \E t \in DOMAIN turns :
    /\ turns[t].pc = "returned" /\ turns[t].reason = "completed"
    /\ DeltasSentOf(t) # <<>>
    /\ Len(EventsOf(t)) = 3

(* ------------------------------ context -------------------------------- *)
\* the row of the log st with this message_id
RowOf(st, id) == st[CHOOSE i \in DOMAIN st : st[i].message_id = id]
\* its place in the log: the log is in the order the messages were stored
PlaceOf(st, id) == CHOOSE i \in DOMAIN st : st[i].message_id = id
\* the context c that the turn T was given on the log st, with context window N, is the
\* system prompt, then the most recent messages of the conversation other than the
\* user message of the turn, oldest first, at most N of them and no fewer than
\* N - 1 while the conversation has that many, then the user text
RightContext(c, T, st, N) ==
  LET n == Len(c)
      mid == SubSeq(c, 2, n - 1)
      uid == T.user_row_id
      others == {i \in DOMAIN st : /\ st[i].conversation_id = T.conversation_id
                                   /\ st[i].message_id # uid}
      place == [k \in DOMAIN mid |-> PlaceOf(st, mid[k].message_id)]
      taken == {place[k] : k \in DOMAIN mid}
  IN /\ n >= 2
     /\ c[1] = ChatMessage("system", SystemPrompt, NoId)
     /\ c[n] = ChatMessage("user", T.content_text, NoId)
     /\ Len(mid) <= N
     /\ Len(mid) >= (IF Cardinality(others) < N - 1 THEN Cardinality(others) ELSE N - 1)
     /\ \A k \in DOMAIN mid :
          /\ mid[k].message_id # uid
          /\ \E i \in others : st[i].message_id = mid[k].message_id
          /\ mid[k].role = st[place[k]].role
          /\ mid[k].content_text = st[place[k]].content_text
     /\ \A j, k \in DOMAIN mid : j < k => place[j] < place[k]
     /\ \A i \in others \ taken : \A k \in DOMAIN mid : i < place[k]

\* C31: the context run_turn builds for the generation capability is the system
\* prompt first, then the most recent messages of the conversation (at most
\* context_limit of them, the limit being at least 1, oldest first) without the
\* user message just stored, then the user text of this call last; the stored
\* user message is never in it a second time.
C31_ContextIsPromptHistoryText ==
  [][\A t \in DOMAIN turns :
       (turns[t].ctx = <<>> /\ turns'[t].ctx # <<>>)
         => /\ ContextLimit(budget.context_limit) >= 1
            /\ RightContext(turns'[t].ctx, turns'[t], store',
                            ContextLimit(budget.context_limit))]_vars

(* ------------------------------ sessions ------------------------------- *)
\* C32: sessions do not interfere.  A start-turn frame on one session is answered
\* CONFLICT only while a run_turn call of that same session is in flight, never
\* because another session has a turn running.  The cancel Event of a turn is set
\* only by a step that handles a payload of the turn's own session: a cancel frame
\* on another session never sets it, also when it carries the turn's trace_id.
C32_SessionsDoNotInterfere ==
  [][/\ \A s \in SessionIds : \A k \in DOMAIN out'[s] :
          (k > Len(out[s]) /\ out'[s][k].error = "CONFLICT") => CallsInFlight(s) # {}
     /\ \A t \in DOMAIN turns :
          (turns'[t].cancel /\ ~turns[t].cancel)
            => /\ nOther'[turns[t].sess] = nOther[turns[t].sess] + 1
               /\ \A s \in SessionIds \ {turns[t].sess} :
                    nOther'[s] = nOther[s] /\ recv_task'[s] = recv_task[s]]_vars

\* C32 witness: while a turn of s1 and a turn of s2 are both in flight, s2 was sent a
\* cancel frame with the trace_id of the turn of s1: answered NOT_FOUND, the cancel
\* Event of neither turn is set
C32_ForeignCancelWhileBothRun ==
  \E a, b \in DOMAIN turns : \E k \in DOMAIN out["s2"] :
    /\ turns[a].sess = "s1" /\ turns[b].sess = "s2"
    /\ InFlight(a) /\ InFlight(b)
    /\ turns[a].pc # "created" /\ turns[b].pc # "created"
    /\ ~turns[a].cancel /\ ~turns[b].cancel
    /\ out["s2"][k].type = "assistant_done"
    /\ out["s2"][k].error = "NOT_FOUND"
    /\ out["s2"][k].trace_id = turns[a].trace_id

(* ----------------------------- immutability ---------------------------- *)
\* C33: the message log is append-only and its messages are immutable: no step of
\* any operation (append, get, list, turn) removes a stored message or changes a
\* field of one; a step leaves the log as it is or adds messages after those stored.
C33_LogIsAppendOnly ==
  [][/\ Len(store') >= Len(store)
     /\ \A i \in DOMAIN store : store'[i] = store[i]]_vars

\* C33 witness: a turn stored its user message, a second later a retry of the turn
\* with the same client_request_id found it and completed, and the conversation
\* was listed through the endpoint with a `before` that was looked up
C33_StoredRetriedListed ==
  \E a, b \in DOMAIN turns : \E i \in DOMAIN store : \E k \in DOMAIN pages :
    /\ a < b
    /\ turns[a].user_row_id # NoId /\ turns[b].user_row_id = turns[a].user_row_id
    /\ turns[b].pc = "returned" /\ turns[b].reason = "completed"
    /\ store[i].message_id = turns[b].assistant_id
    /\ store[i].created_at_utc > RowOf(store, turns[a].user_row_id).created_at_utc
    /\ pages[k].api = "http" /\ pages[k].before_id # NoId /\ pages[k].status = "ok"

(* -------------------------------- usage -------------------------------- *)
RECURSIVE WordsFrom(_, _)
\* the words of text that start in it, read left to right; inword: the character
\* before text belongs to a word
WordsFrom(text, inword) ==
  IF text = <<>> THEN 0
  ELSE IF IsSpace(Head(text)) THEN WordsFrom(Tail(text), FALSE)
       ELSE (IF inword THEN 0 ELSE 1) + WordsFrom(Tail(text), TRUE)
\* the number of whitespace-delimited words of text
Words(text) == WordsFrom(text, FALSE)

\* C34: for a completed turn, usage.input_tokens is the number of
\* whitespace-delimited words of the user text and usage.output_tokens that of the
\* generated text, which is the text of the assistant message; the done frame
\* carries this usage; the text "hello" counts 1.
C34_UsageCountsWords ==
  \A t \in DOMAIN turns :
    (turns[t].pc = "returned" /\ turns[t].reason = "completed")
      => /\ turns[t].usage[1] = Words(turns[t].content_text)
         /\ turns[t].usage[2] = Words(Join(turns[t].parts))
         /\ \A i \in DOMAIN store :
              store[i].message_id = turns[t].assistant_id
                => turns[t].usage[2] = Words(store[i].content_text)
         /\ turns[t].content_text = <<"h", "e", "l", "l", "o">> => turns[t].usage[1] = 1
         /\ \A i \in ResultFramesOf(t) :
              out[turns[t].sess][i].usage = turns[t].usage

\* C34 witness: a turn on a text of two words among whitespace completed with two
\* words generated, and its done frame was sent
C34_TwoWordsInTwoWordsOut ==
  \E t \in DOMAIN turns :
    /\ turns[t].pc = "returned" /\ turns[t].reason = "completed"
    /\ turns[t].content_text = <<" ", "a", "\t", " ", "b", "c", "\n">>
    /\ turns[t].usage = <<2, 2>>
    /\ ResultFramesOf(t) # {}

(* ----------------------------- clip_lines ------------------------------ *)
RECURSIVE SplitAtNewlines(_, _)
\* the lines of a result: what stands between its \n characters, after the
\* characters cur of the line being read
SplitAtNewlines(text, cur) ==
  IF text = <<>> THEN <<cur>>
  ELSE IF Head(text) = "\n" THEN <<cur>> \o SplitAtNewlines(Tail(text), <<>>)
       ELSE SplitAtNewlines(Tail(text), Append(cur, Head(text)))
\* the lines of the result of the call
ResultLines == SplitAtNewlines(clip.result, <<>>)

\* C35: clip_lines(text, max_lines) returns the lines of text unchanged when there
\* are at most max_lines of them, and otherwise the first max_lines lines followed
\* by one marker line that states the number of lines left out, the line count
\* minus max_lines; the result never has more than max_lines + 1 lines.
C35_ClipLinesKeepsOrMarks ==
  (clip.done /\ clip # NoClip) =>
    LET lines == SplitLines(clip.text)
        n == Len(lines)
    IN /\ n = 0 => clip.result = <<>>
       /\ (0 < n /\ n <= clip.max_lines) => ResultLines = lines
       /\ n > clip.max_lines
            => /\ Len(ResultLines) = clip.max_lines + 1
               /\ SubSeq(ResultLines, 1, clip.max_lines) = SubSeq(lines, 1, clip.max_lines)
               /\ ResultLines[clip.max_lines + 1] = Marker(n - clip.max_lines)
       /\ Len(ResultLines) <= clip.max_lines + 1

\* C35 witness: a text of three lines, the first two empty, was clipped to one line
\* and the marker says 2
C35_ThreeLinesClippedToOne ==
  /\ clip.done
  /\ clip.text = <<"\r", "\n", "\r", "a">>
  /\ clip.max_lines = 1
  /\ clip.result = <<"\n", ".", ".", ".", "(", "2", ")">>

(* ----------------------- cancellation and fragments -------------------- *)
\* C36: once the cancel Event of a turn is set, no further fragment of the turn is
\* forwarded or accumulated: no step adds a delta frame of the turn or a part to
\* its text.  A fragment the generation capability produces after that is
\* discarded and ends the consumption, and that is no error: the call returns with
\* reason cancelled and no error code.
C36_NoFragmentAfterCancel ==
  [][\A t \in DOMAIN turns :
       turns[t].cancel
         => /\ turns'[t].parts = turns[t].parts
            /\ \A k \in DOMAIN out'[turns[t].sess] :
                 k > Len(out[turns[t].sess])
                   => ~(/\ out'[turns[t].sess][k].type = "assistant_delta"
                        /\ out'[turns[t].sess][k].trace_id = turns[t].trace_id)
            /\ turns'[t].nfrag > turns[t].nfrag
                 => /\ turns'[t].pc = "returned"
                    /\ turns'[t].reason = "cancelled"
                    /\ turns'[t].error = NoError]_vars

\* C36 witness: a turn forwarded one fragment, its cancel Event was set, the
\* generation capability produced a second fragment, and the call returned
\* cancelled with the one fragment accumulated and sent
C36_FragmentDiscardedAfterCancel ==
  \E t \in DOMAIN turns :
    /\ turns[t].cancel /\ conn[turns[t].sess] = "open"
    /\ turns[t].pc = "returned" /\ turns[t].reason = "cancelled"
    /\ turns[t].nfrag = 2 /\ Len(turns[t].parts) = 1
    /\ Len(DeltasSentOf(t)) = 1

(* --------------------------- last frame of a turn ---------------------- *)
\* C37: the done frame that reports the result of a turn is sent only after the
\* turn's run_turn call has returned, and it is the last frame of the turn: no
\* status frame and no delta frame with the turn's trace_id comes after it.
C37_DoneFrameIsLast ==
  \A t \in DOMAIN turns : \A i \in ResultFramesOf(t) :
    /\ turns[t].pc = "returned"
    /\ \A k \in DOMAIN out[turns[t].sess] :
         k > i => ~(/\ out[turns[t].sess][k].type \in {"assistant_status", "assistant_delta"}
                    /\ out[turns[t].sess][k].trace_id = turns[t].trace_id)

\* C37 witness: the done frame of a turn that streamed two fragments was sent, and
\* after it the frames of the next turn
C37_DoneThenNextTurn ==
  \E t \in DOMAIN turns : \E i \in ResultFramesOf(t) :
    /\ Len(DeltasSentOf(t)) = 2
    /\ Len(CallbackFramesOf(t)) = 5
    /\ Len(out[turns[t].sess]) > i
    /\ out[turns[t].sess][Len(out[turns[t].sess])].type = "assistant_status"

(* ------------------------ failure of the message log ------------------- *)
\* run_turn t has run and has ended with no user_row: its first create_message call
\* did not return
UserStoreFailed(t) ==
  turns[t].pc \notin {"created", "aborted"} /\ turns[t].user_row_id = NoId

\* C38: when the message log fails to persist the user message of a turn, run_turn
\* raises to its caller and returns no TurnResult: no status and no delta callback
\* was invoked, the generation capability was not called, run_turn published no
\* event (the only event of the trace is message.received, published before the
\* call), and no done frame reports the turn, so none with reason error: a done
\* frame that carries the trace_id of the turn is the refusal of another start
\* request, sent by start_turn while the turn was running.
C38_UserStoreFailureRaises ==
  \A t \in DOMAIN turns :
    UserStoreFailed(t)
      => /\ turns[t].pc = "raised"
         /\ turns[t].reason = "" /\ turns[t].error = NoError
         /\ CallbackFramesOf(t) = <<>>
         /\ turns[t].nfrag = 0 /\ turns[t].parts = <<>>
         /\ \A k \in DOMAIN EventsOf(t) : EventsOf(t)[k].type = "message.received"
         /\ ResultFramesOf(t) = {}
         /\ \A i \in DoneFramesOf(turns[t].sess, turns[t].trace_id) :
              out[turns[t].sess][i].error = "CONFLICT"

\* C38 witness: the INSERT of the user message of a second turn raised, and the
\* exception has ended the connection
C38_SecondTurnStoreRaised ==
  \E t \in DOMAIN turns :
    /\ t > 1 /\ UserStoreFailed(t)
    /\ turns[t].client_request_id = ""
    /\ conn[turns[t].sess] = "crashed"

(* -------------------------- failing callbacks -------------------------- *)
\* C39: when the delta callback or the status callback for streaming raises during
\* generation, run_turn reports it like a failure of the generation capability: it
\* returns reason error with code UNAVAILABLE and no assistant message, and none
\* is stored.  When the status callback raises for queued or for thinking, the
\* exception leaves run_turn: the call returns no TurnResult.
C39_CallbackFailures ==
  \A t \in DOMAIN turns :
    /\ turns[t].cb_raised \in {"streaming", "delta"}
         => /\ turns[t].pc = "returned"
            /\ turns[t].reason = "error" /\ turns[t].error = "UNAVAILABLE"
            /\ turns[t].assistant_id = NoId
            /\ AssistantRowsOf(t) = {}
    /\ turns[t].cb_raised \in {"queued", "thinking"}
         => /\ turns[t].pc = "raised"
            /\ turns[t].reason = "" /\ turns[t].error = NoError

\* C39 witness: on a connection that was lost, the delta callback raised for the
\* second fragment of a turn whose cancel Event was not set, and the call returned
\* reason error
C39_DeltaCallbackRaised ==
  \E t \in DOMAIN turns :
    /\ turns[t].cb_raised = "delta" /\ ~turns[t].cancel
    /\ Len(turns[t].parts) = 2
    /\ turns[t].pc = "returned" /\ turns[t].reason = "error"
    /\ conn[turns[t].sess] = "closed"

(* ------------------------- assistant messages -------------------------- *)
\* C40: every run_turn call that returns reason completed appends exactly one new
\* message to the log, an assistant message, also when its user message was found
\* and not inserted: after two completed turns with the same conversation and the
\* same non-null client_request_id the log holds one user message under that key
\* and an assistant message of each turn, two in all.
C40_CompletedTurnAppendsOneAssistant ==
  [][/\ \A t \in DOMAIN turns :
          (turns[t].pc # "returned" /\ turns'[t].pc = "returned"
             /\ turns'[t].reason = "completed")
            => /\ Len(store') = Len(store) + 1
               /\ SubSeq(store', 1, Len(store)) = store
               /\ store'[Len(store')].role = "assistant"
               /\ store'[Len(store')].message_id = turns'[t].assistant_id
               /\ \A i \in DOMAIN store : store[i].message_id # turns'[t].assistant_id
     /\ \A a, b \in DOMAIN turns' :
          (/\ a < b
           /\ turns'[a].pc = "returned" /\ turns'[a].reason = "completed"
           /\ turns'[b].pc = "returned" /\ turns'[b].reason = "completed"
           /\ turns'[a].conversation_id = turns'[b].conversation_id
           /\ turns'[a].client_request_id # Absent
           /\ turns'[a].client_request_id = turns'[b].client_request_id)
            => /\ turns'[a].user_row_id = turns'[b].user_row_id
               /\ Cardinality({i \in DOMAIN store' :
                                 /\ store'[i].role = "user"
                                 /\ store'[i].conversation_id = turns'[a].conversation_id
                                 /\ store'[i].client_request_id
                                      = turns'[a].client_request_id}) = 1
               /\ Cardinality({i \in DOMAIN store' :
                                 /\ store'[i].role = "assistant"
                                 /\ store'[i].message_id
                                      \in {turns'[a].assistant_id,
                                           turns'[b].assistant_id}}) = 2]_vars

\* C40 witness: a turn and its retry with client_request_id k1 both completed; the
\* log holds the user message of the first and an assistant message of each
C40_RetryCompletedTwice ==
  \E a, b \in DOMAIN turns :
    /\ a < b
    /\ turns[a].client_request_id = "k1" /\ turns[b].client_request_id = "k1"
    /\ turns[a].conversation_id = turns[b].conversation_id
    /\ turns[a].pc = "returned" /\ turns[a].reason = "completed"
    /\ turns[b].pc = "returned" /\ turns[b].reason = "completed"
    /\ turns[a].user_row_id = turns[b].user_row_id
    /\ turns[a].assistant_id # turns[b].assistant_id
    /\ Len(store) = 3

================================================================
